---- MODULE Spec2Model ----
(***************************************************************************)
(* Model of the ODGI cascade input pipeline (tf_inputs.py, tf_utils.py):   *)
(* grid assignment and grouping of ground-truth boxes, left/right flip     *)
(* augmentation, crop selection (filter, rescale, NMS) and construction of *)
(* the next stage's inputs.                                                *)
(*                                                                         *)
(* Numbers.  Coordinates are fixed-point integers in units of 1/Den, so    *)
(* the normalised interval [0,1] is 0..Den; areas are in units of          *)
(* 1/Den^2.  Scores and score thresholds are in hundredths.  Ratios that   *)
(* the code compares against a threshold are kept as exact fractions       *)
(* <<num, den>> and compared by cross-multiplication.  Floating-point      *)
(* rounding is not modelled.  epsilon = 1e-8 is smaller than one unit of   *)
(* length or area, so max(epsilon, d) is d for every d >= 1 unit and       *)
(* epsilon for d <= 0.                                                     *)
(***************************************************************************)
EXTENDS Integers, Sequences, FiniteSets, TLC

VARIABLES
    pc,         \* position in the pipeline under study
    eg_args,    \* arguments of extract_groups
    eg_result,  \* what extract_groups returned
    example,    \* the raw record read by parsing_function
    cfg,        \* configuration of get_tf_dataset
    in_,        \* the batch dictionary (one parsed record per sample)
    flips,      \* runs of apply_data_augmentation, and flips of each sample
    ns_args,    \* arguments of get_next_stage_inputs
    ns_result,  \* what get_next_stage_inputs returned
    geo,        \* a call of a box-geometry function: its arguments and its result
    build,      \* a pipeline construction call: function, configuration, outcome
    queue,      \* the batching queue of get_next_stage_inputs and its threads
    split       \* the split of a batch across devices in get_tf_dataset

vars == <<pc, eg_args, eg_result, example, cfg, in_, flips, ns_args, ns_result, geo, build, queue, split>>

CropSelectionIdle == eg_args = <<>> /\ eg_result = <<>>

DatasetIdle == example = <<>> /\ cfg = <<>> /\ in_ = <<>> /\ flips = <<>>

NextStageIdle == ns_args = <<>> /\ ns_result = <<>>

GeometryIdle == geo = <<>>

ConstructionIdle == build = <<>>

QueueIdle == queue = <<>>

SplitIdle == split = <<>>

\* The variables each part of the pipeline leaves alone, and their values
\* while only that part runs.
NotCropSelection == <<example, cfg, in_, flips, ns_args, ns_result, geo, build, queue, split>>

NotDataset == <<eg_args, eg_result, ns_args, ns_result, geo, build, queue, split>>

NotNextStage == <<eg_args, eg_result, example, cfg, in_, flips, geo, build, queue, split>>

NotGeometry == <<eg_args, eg_result, example, cfg, in_, flips, ns_args, ns_result, build, queue, split>>

NotConstruction == <<eg_args, eg_result, example, cfg, in_, flips, ns_args, ns_result, geo, queue, split>>

NotSplit == <<eg_args, eg_result, example, cfg, in_, flips, ns_args, ns_result, geo, build, queue>>

NotQueue == <<eg_args, eg_result, example, cfg, in_, flips, ns_args, ns_result, geo, build, split>>

OnlyCropSelection == DatasetIdle /\ NextStageIdle /\ GeometryIdle /\ ConstructionIdle /\ QueueIdle /\ SplitIdle

OnlyDataset == CropSelectionIdle /\ NextStageIdle /\ GeometryIdle /\ ConstructionIdle /\ QueueIdle /\ SplitIdle

OnlyNextStage == CropSelectionIdle /\ DatasetIdle /\ GeometryIdle /\ ConstructionIdle /\ QueueIdle /\ SplitIdle

OnlyGeometry == CropSelectionIdle /\ DatasetIdle /\ NextStageIdle /\ ConstructionIdle /\ QueueIdle /\ SplitIdle

OnlyConstruction ==
    CropSelectionIdle /\ DatasetIdle /\ NextStageIdle /\ GeometryIdle /\ QueueIdle /\ SplitIdle

OnlyQueue ==
    /\ CropSelectionIdle /\ DatasetIdle /\ NextStageIdle /\ GeometryIdle
    /\ ConstructionIdle /\ SplitIdle

OnlySplit ==
    /\ CropSelectionIdle /\ DatasetIdle /\ NextStageIdle /\ GeometryIdle
    /\ ConstructionIdle /\ QueueIdle

\* Fixed-point unit: a multiple of the grid denominators 2, 3, 4 and of 10,
\* and of 2 again so that box centres and half-scales stay integral.
Den == 8 * 15

ZeroBox == <<0, 0, 0, 0>>

Min2(a, b) == IF a <= b THEN a ELSE b

Max2(a, b) == IF a >= b THEN a ELSE b

clip_by_value(v, lo, hi) == Max2(lo, Min2(hi, v))

SeqToSet(s) == {s[k] : k \in DOMAIN s}

(***************************************************************************)
(* BoxGeometry: tf_utils.py                                                *)
(***************************************************************************)
get_intersection(A, B) ==
    Max2(0, Min2(A[3], B[3]) - Max2(A[1], B[1]))
    * Max2(0, Min2(A[4], B[4]) - Max2(A[2], B[2]))

get_area(A) == Max2(0, A[3] - A[1]) * Max2(0, A[4] - A[2])

\* intersection / max(epsilon, union) as a fraction.  union <= 0 only when
\* both boxes have zero area, and then the intersection is 0 as well: the
\* quotient 0 / epsilon is the fraction 0/1.
get_iou(A, B) ==
    LET intersection == get_intersection(A, B)
        union == get_area(A) + get_area(B) - intersection
    IN  IF union > 0 THEN <<intersection, union>> ELSE <<0, 1>>

\* intersection / max(epsilon, area(A)); area(A) = 0 forces intersection = 0.
get_intersection_ratio(A, B) ==
    LET intersection == get_intersection(A, B)
        area == get_area(A)
    IN  IF area > 0 THEN <<intersection, area>> ELSE <<0, 1>>

\* Comparisons of fractions with positive denominators.
FracGt(p, q) == p[1] * q[2] > q[1] * p[2]

FracGe(p, q) == p[1] * q[2] >= q[1] * p[2]

(***************************************************************************)
(* NMSEngine: utils.nms_with_pad.  Greedy selection: pick the highest      *)
(* remaining score (lowest original index among equals), suppress every    *)
(* other remaining box whose IoU with it is >= the threshold, until no box *)
(* remains or K picks are made; pad with zeros up to K.                    *)
(***************************************************************************)
BestIndex(scores, remaining) ==
    CHOOSE j \in remaining :
        \A k \in remaining :
            scores[j] > scores[k] \/ (scores[j] = scores[k] /\ j <= k)

\* Mutant of nms_select: suppresses only on IoU strictly above the threshold.
RECURSIVE nms_select_strict(_, _, _, _, _, _)
nms_select_strict(boxes, scores, remaining, max_output_size, iou_threshold, picked) ==
    IF remaining = {} \/ Len(picked) >= max_output_size
    THEN picked
    ELSE LET best == BestIndex(scores, remaining)
             rest == {j \in remaining \ {best} :
                        ~FracGt(get_iou(boxes[best], boxes[j]), iou_threshold)}
         IN  nms_select_strict(boxes, scores, rest, max_output_size,
                               iou_threshold, Append(picked, best))

RECURSIVE nms_select(_, _, _, _, _, _)
nms_select(boxes, scores, remaining, max_output_size, iou_threshold, picked) ==
    IF remaining = {} \/ Len(picked) >= max_output_size
    THEN picked
    ELSE LET best == BestIndex(scores, remaining)
             rest == {j \in remaining \ {best} :
                        ~FracGe(get_iou(boxes[best], boxes[j]), iou_threshold)}
         IN  nms_select(boxes, scores, rest, max_output_size, iou_threshold,
                        Append(picked, best))

nms_indices(boxes, scores, max_output_size, iou_threshold) ==
    nms_select(boxes, scores, DOMAIN boxes, max_output_size, iou_threshold, <<>>)

\* Mutant of nms_with_pad: returns the picks without padding them to K.
nms_without_pad(boxes, scores, max_output_size, iou_threshold) ==
    LET idx == nms_indices(boxes, scores, max_output_size, iou_threshold)
    IN  [boxes  |-> [s \in 1..Len(idx) |-> boxes[idx[s]]],
         scores |-> [s \in 1..Len(idx) |-> scores[idx[s]]]]

nms_with_pad(boxes, scores, max_output_size, iou_threshold) ==
    LET idx == nms_indices(boxes, scores, max_output_size, iou_threshold)
    IN  [boxes  |-> [s \in 1..max_output_size |->
                        IF s <= Len(idx) THEN boxes[idx[s]] ELSE ZeroBox],
         scores |-> [s \in 1..max_output_size |->
                        IF s <= Len(idx) THEN scores[idx[s]] ELSE 0]]

(***************************************************************************)
(* ScoreFilter and OffsetRescaler.  A batch tensor of shape (batch, N, .)  *)
(* is a sequence (one entry per image) of sequences (one entry per         *)
(* prediction).                                                            *)
(***************************************************************************)
ScaleBox(box, f) == [k \in 1..4 |-> box[k] * f]

\* A prediction counted as a group from sigmoid(logit) = 0.5 on.
filter_individuals_group_at_half(predicted_boxes, predicted_scores, has_group_flags, predicted_group_flags, strong_confidence_threshold) ==
    LET is_not_strongly_confident(b, n) ==
            IF predicted_scores[b][n] <= strong_confidence_threshold THEN 1 ELSE 0
        is_group(b, n) == IF predicted_group_flags[b][n] >= 0 THEN 1 ELSE 0
        should_be_refined(b, n) ==
            IF has_group_flags
            THEN Min2(1, is_group(b, n) + is_not_strongly_confident(b, n))
            ELSE is_not_strongly_confident(b, n)
    IN  [boxes  |-> [b \in DOMAIN predicted_boxes |->
                        [n \in DOMAIN predicted_boxes[b] |->
                            ScaleBox(predicted_boxes[b][n], should_be_refined(b, n))]],
         scores |-> [b \in DOMAIN predicted_scores |->
                        [n \in DOMAIN predicted_scores[b] |->
                            predicted_scores[b][n] * should_be_refined(b, n)]],
         kept_out_filter |-> [b \in DOMAIN predicted_scores |->
                        [n \in DOMAIN predicted_scores[b] |->
                            1 - should_be_refined(b, n)]]]

\* sigmoid(logit) > 0.5 iff logit > 0.
filter_individuals(predicted_boxes, predicted_scores, has_group_flags, predicted_group_flags, strong_confidence_threshold) ==
    LET is_not_strongly_confident(b, n) ==
            IF predicted_scores[b][n] <= strong_confidence_threshold THEN 1 ELSE 0
        is_group(b, n) == IF predicted_group_flags[b][n] > 0 THEN 1 ELSE 0
        should_be_refined(b, n) ==
            IF has_group_flags
            THEN Min2(1, is_group(b, n) + is_not_strongly_confident(b, n))
            ELSE is_not_strongly_confident(b, n)
    IN  [boxes  |-> [b \in DOMAIN predicted_boxes |->
                        [n \in DOMAIN predicted_boxes[b] |->
                            ScaleBox(predicted_boxes[b][n], should_be_refined(b, n))]],
         scores |-> [b \in DOMAIN predicted_scores |->
                        [n \in DOMAIN predicted_scores[b] |->
                            predicted_scores[b][n] * should_be_refined(b, n)]],
         kept_out_filter |-> [b \in DOMAIN predicted_scores |->
                        [n \in DOMAIN predicted_scores[b] |->
                            1 - should_be_refined(b, n)]]]

filter_threshold(predicted_boxes, predicted_scores, confidence_threshold) ==
    LET filtered(b, n) ==
            IF predicted_scores[b][n] > confidence_threshold THEN 1 ELSE 0
    IN  [boxes  |-> [b \in DOMAIN predicted_boxes |->
                        [n \in DOMAIN predicted_boxes[b] |->
                            ScaleBox(predicted_boxes[b][n], filtered(b, n))]],
         scores |-> [b \in DOMAIN predicted_scores |->
                        [n \in DOMAIN predicted_scores[b] |->
                            predicted_scores[b][n] * filtered(b, n)]]]

\* The quotient over epsilon taken as large even for a zero scale.
RescaledScaleZeroOverEpsilon(scale, offset) ==
    IF offset[1] > 0 THEN (scale * offset[2]) \div offset[1]
    ELSE IF scale >= 0 THEN 2 * Den
    ELSE 0 - 2 * Den

\* One scale divided by (offset + epsilon), the offset a fraction <<num, den>>
\* with num >= 0.  For a positive offset the epsilon is absorbed; for a zero
\* offset the quotient scale / epsilon is beyond +-1 unless the scale is 0.
RescaledScale(scale, offset) ==
    IF offset[1] > 0 THEN (scale * offset[2]) \div offset[1]
    ELSE IF scale > 0 THEN 2 * Den
    ELSE IF scale < 0 THEN 0 - 2 * Den
    ELSE 0

\* rescale_with_offsets on one box.  Coordinates handed to it are even, and
\* offsets are 1/n, so that centres and half-scales are whole units.
RescaleBox(box, offset) ==
    LET cx2 == box[1] + box[3]
        cy2 == box[2] + box[4]
        target == Min2(Den, Max2(RescaledScale(box[3] - box[1], offset[1]),
                                 RescaledScale(box[4] - box[2], offset[2])))
    IN  <<clip_by_value((cx2 - target) \div 2, 0, Den),
          clip_by_value((cy2 - target) \div 2, 0, Den),
          clip_by_value((cx2 + target) \div 2, 0, Den),
          clip_by_value((cy2 + target) \div 2, 0, Den)>>

rescale_with_offsets(predicted_boxes, predicted_offsets) ==
    [b \in DOMAIN predicted_boxes |->
        [n \in DOMAIN predicted_boxes[b] |->
            RescaleBox(predicted_boxes[b][n], predicted_offsets[b][n])]]

(***************************************************************************)
(* CascadeBuilder, crop selection: extract_groups.                         *)
(***************************************************************************)
ZeroCrops(num_outputs) ==
    [boxes  |-> [s \in 1..num_outputs |-> ZeroBox],
     scores |-> [s \in 1..num_outputs |-> 0]]

\* The NMS loop of include/tf_inputs.py: one tf.cond per slot of the
\* statically known previous batch size, then a slice to the true length.
NmsLoop(predicted_boxes, predicted_scores, num_outputs, nms_threshold, batch_size) ==
    LET current_batch == Len(predicted_boxes)
        per_slot == [i \in 1..batch_size |->
                        IF i <= current_batch
                        THEN nms_with_pad(predicted_boxes[i], predicted_scores[i],
                                          num_outputs, nms_threshold)
                        ELSE ZeroCrops(num_outputs)]
    IN  IF current_batch > batch_size
        THEN [status |-> "error", slots |-> per_slot, boxes |-> <<>>, scores |-> <<>>]
        ELSE [status |-> "ok",
              slots  |-> per_slot,
              boxes  |-> [i \in 1..current_batch |-> per_slot[i].boxes],
              scores |-> [i \in 1..current_batch |-> per_slot[i].scores]]

\* tf.nn.top_k: the k largest entries in descending order, the lower index
\* first among equals.
RECURSIVE top_k_select(_, _, _, _)
top_k_select(scores, remaining, k, picked) ==
    IF Len(picked) >= k \/ remaining = {}
    THEN picked
    ELSE LET best == BestIndex(scores, remaining)
         IN  top_k_select(scores, remaining \ {best}, k, Append(picked, best))

\* No selection: every prediction is handed on.
TopKPathUnselected(predicted_boxes, predicted_scores, num_outputs) ==
    [status |-> "ok", boxes |-> predicted_boxes, scores |-> predicted_scores]

TopKPath(predicted_boxes, predicted_scores, num_outputs) ==
    LET idx(b) == top_k_select(predicted_scores[b], DOMAIN predicted_scores[b],
                               num_outputs, <<>>)
    IN  IF \E b \in DOMAIN predicted_scores : Len(predicted_scores[b]) < num_outputs
        THEN [status |-> "error", boxes |-> <<>>, scores |-> <<>>]
        ELSE [status |-> "ok",
              boxes  |-> [b \in DOMAIN predicted_boxes |->
                            [s \in 1..num_outputs |-> predicted_boxes[b][idx(b)[s]]]],
              scores |-> [b \in DOMAIN predicted_scores |->
                            [s \in 1..num_outputs |-> predicted_scores[b][idx(b)[s]]]]]

ZeroFilter(predicted_scores) ==
    [b \in DOMAIN predicted_scores |-> [n \in DOMAIN predicted_scores[b] |-> 0]]

\* include/tf_inputs.py: extract_groups.
extract_groups(a) ==
    IF a.mode \notin {"train", "val", "test"}
    THEN [status |-> "error", nms_inputs |-> <<>>, slots |-> <<>>,
          crop_boxes |-> <<>>, crop_boxes_confidences |-> <<>>,
          kept_out_filter |-> <<>>]
    ELSE
    LET shortcut == a.mode \in {"test", "val"} /\ a.strong_confidence_threshold < 100
        f1 == IF shortcut
              THEN filter_individuals(a.predicted_boxes, a.predicted_scores,
                                      a.has_group_flags, a.predicted_group_flags,
                                      a.strong_confidence_threshold)
              ELSE [boxes |-> a.predicted_boxes, scores |-> a.predicted_scores,
                    kept_out_filter |-> ZeroFilter(a.predicted_scores)]
        f2 == IF a.confidence_threshold > 0
              THEN filter_threshold(f1.boxes, f1.scores, a.confidence_threshold)
              ELSE [boxes |-> f1.boxes, scores |-> f1.scores]
        rescaled == IF a.has_offsets
                    THEN rescale_with_offsets(f2.boxes, a.predicted_offsets)
                    ELSE f2.boxes
        nms == NmsLoop(rescaled, f2.scores, a.num_outputs, a.nms_threshold,
                       a.previous_batch_size)
        top == TopKPath(rescaled, f2.scores, a.num_outputs)
        pre == [boxes |-> rescaled, scores |-> f2.scores]
    IN  IF a.num_outputs > 0
        THEN IF FracGt(<<1, 1>>, a.nms_threshold)
             THEN [status |-> nms.status, nms_inputs |-> pre, slots |-> nms.slots,
                   crop_boxes |-> nms.boxes,
                   crop_boxes_confidences |-> nms.scores,
                   kept_out_filter |-> f1.kept_out_filter]
             ELSE [status |-> top.status, nms_inputs |-> pre, slots |-> <<>>,
                   crop_boxes |-> top.boxes,
                   crop_boxes_confidences |-> top.scores,
                   kept_out_filter |-> f1.kept_out_filter]
        ELSE [status |-> "ok", nms_inputs |-> pre, slots |-> <<>>,
              crop_boxes |-> rescaled,
              crop_boxes_confidences |-> f2.scores,
              kept_out_filter |-> f1.kept_out_filter]

\* tf_inputs.py (top-level copy): extract_groups.  The loop runs over the
\* configured batch size and indexes predicted_boxes[i] unconditionally, so
\* a batch shorter than inputs['batch_size'] is an out-of-bounds slice.  Its
\* caller get_next_stage_inputs asserts num_crops > 0, so num_outputs >= 1.
extract_groups_root(a) ==
    IF a.mode \notin {"train", "test"}
    THEN [status |-> "error", nms_inputs |-> <<>>, slots |-> <<>>,
          crop_boxes |-> <<>>, crop_boxes_confidences |-> <<>>,
          kept_out_filter |-> <<>>]
    ELSE
    LET shortcut == a.mode = "test" /\ a.has_group_flags
        f1 == IF shortcut
              THEN filter_individuals(a.predicted_boxes, a.predicted_scores,
                                      TRUE, a.predicted_group_flags,
                                      a.strong_confidence_threshold)
              ELSE [boxes |-> a.predicted_boxes, scores |-> a.predicted_scores,
                    kept_out_filter |-> ZeroFilter(a.predicted_scores)]
        f2 == filter_threshold(f1.boxes, f1.scores, a.confidence_threshold)
        rescaled == IF a.has_offsets
                    THEN rescale_with_offsets(f2.boxes, a.predicted_offsets)
                    ELSE f2.boxes
        current_batch == Len(a.predicted_boxes)
        per_slot == [i \in 1..Min2(a.previous_batch_size, current_batch) |->
                        nms_with_pad(rescaled[i], f2.scores[i], a.num_outputs,
                                     a.nms_threshold)]
        pre == [boxes |-> rescaled, scores |-> f2.scores]
    IN  IF current_batch < a.previous_batch_size
        THEN [status |-> "error", nms_inputs |-> pre, slots |-> per_slot,
              crop_boxes |-> <<>>, crop_boxes_confidences |-> <<>>,
              kept_out_filter |-> f1.kept_out_filter]
        ELSE [status |-> "ok", nms_inputs |-> pre, slots |-> per_slot,
              crop_boxes |-> [i \in DOMAIN per_slot |-> per_slot[i].boxes],
              crop_boxes_confidences |-> [i \in DOMAIN per_slot |-> per_slot[i].scores],
              kept_out_filter |-> f1.kept_out_filter]

RunExtractGroups(a) ==
    IF a.version = "include" THEN extract_groups(a) ELSE extract_groups_root(a)

(***************************************************************************)
(* Crop selection: inputs and the specification SpecNMS.                   *)
(***************************************************************************)
MaxPred == 3

MaxBatch == 2

MaxCrops == 2

\* Predictions (box, score): two heavily overlapping boxes (IoU 0.8), boxes
\* disjoint from them, and a box whose IoU with the first is exactly 1/2 and
\* whose score ties with another's.
PredPool ==
    << [box |-> <<0, 0, 60, 60>>,     score |-> 90],
       [box |-> <<0, 0, 60, 48>>,     score |-> 80],
       [box |-> <<60, 60, 120, 120>>, score |-> 85],
       [box |-> <<0, 60, 60, 120>>,   score |-> 10],
       [box |-> <<0, 0, 60, 30>>,     score |-> 85] >>

ScenarioImage == <<1, 2, 3, 4>>

PredImages ==
    UNION {[1..n -> DOMAIN PredPool] : n \in 1..MaxPred} \cup {ScenarioImage}

\* Image i of a batch is the first image rotated by i - 1 places.
RotateImage(img, r) ==
    [n \in DOMAIN img |-> img[((n - 1 + r) % Len(img)) + 1]]

NmsThresholds == {<<0, 1>>, <<1, 2>>, <<1, 1>>}

ConfidenceThresholds == {0, 50}

EgArgs(version, img, B, K, nms_thr, conf) ==
    [version |-> version,
     mode |-> "train",
     predicted_boxes |-> [b \in 1..B |->
         [n \in DOMAIN img |-> PredPool[RotateImage(img, b - 1)[n]].box]],
     predicted_scores |-> [b \in 1..B |->
         [n \in DOMAIN img |-> PredPool[RotateImage(img, b - 1)[n]].score]],
     has_group_flags |-> FALSE,
     predicted_group_flags |-> <<>>,
     has_offsets |-> FALSE,
     predicted_offsets |-> <<>>,
     confidence_threshold |-> conf,
     strong_confidence_threshold |-> 100,
     nms_threshold |-> nms_thr,
     num_outputs |-> K,
     previous_batch_size |-> MaxBatch]

InitNMS ==
    /\ pc = "extract_groups"
    /\ \E version \in {"include", "root"}, img \in PredImages, B \in 1..MaxBatch,
          K \in 0..MaxCrops, nms_thr \in NmsThresholds,
          conf \in ConfidenceThresholds :
            /\ version = "root" => K >= 1
            /\ eg_args = EgArgs(version, img, B, K, nms_thr, conf)
    /\ eg_result = <<>>
    /\ OnlyCropSelection

ExtractGroups ==
    /\ pc = "extract_groups"
    /\ eg_result' = RunExtractGroups(eg_args)
    /\ pc' = "crops"
    /\ UNCHANGED <<eg_args, NotCropSelection>>

NextNMS == ExtractGroups

SpecNMS == InitNMS /\ [][NextNMS]_vars

(***************************************************************************)
(* Claims on crop selection (SpecNMS).                                     *)
(***************************************************************************)
\* The result went through the NMS loop (and not top-k or the K = 0 return).
NmsPathTaken ==
    /\ pc = "crops"
    /\ \/ eg_args.version = "root"
       \/ eg_args.num_outputs > 0 /\ FracGt(<<1, 1>>, eg_args.nms_threshold)

\* The images nms_with_pad was called on.
NmsCalls ==
    IF eg_args.version = "include"
    THEN 1..Len(eg_args.predicted_boxes)
    ELSE DOMAIN eg_result.slots

IouBelow(A, B, thr) == ~FracGe(get_iou(A, B), thr)

\* Input i is gone after the picks: picked itself or suppressed by a pick.
PickedOrSuppressed(boxes, idx, thr, j) ==
    \E t \in DOMAIN idx : idx[t] = j \/ ~IouBelow(boxes[idx[t]], boxes[j], thr)

\* C1: every call of nms_with_pad returns exactly K boxes and K scores; the
\* slots after the surviving picks hold the box (0,0,0,0) with score 0, and
\* a slot is padding only when no input box is left to pick.
C1_NmsFixedSizeZeroPadded ==
    NmsPathTaken =>
        \A i \in NmsCalls :
            LET K == eg_args.num_outputs
                thr == eg_args.nms_threshold
                boxes == eg_result.nms_inputs.boxes[i]
                scores == eg_result.nms_inputs.scores[i]
                out == eg_result.slots[i]
                idx == nms_indices(boxes, scores, K, thr)
            IN  /\ DOMAIN out.boxes = 1..K
                /\ DOMAIN out.scores = 1..K
                /\ Len(idx) <= K
                /\ \A s \in 1..K :
                        IF s <= Len(idx)
                        THEN out.boxes[s] = boxes[idx[s]] /\ out.scores[s] = scores[idx[s]]
                        ELSE out.boxes[s] = ZeroBox /\ out.scores[s] = 0
                /\ Len(idx) < K =>
                        \A j \in DOMAIN boxes : PickedOrSuppressed(boxes, idx, thr, j)

\* C1 witness: a call in which fewer than K boxes survive and a slot is padded.
C1_Witness ==
    /\ NmsPathTaken
    /\ \E i \in NmsCalls :
          /\ Len(nms_indices(eg_result.nms_inputs.boxes[i],
                             eg_result.nms_inputs.scores[i],
                             eg_args.num_outputs, eg_args.nms_threshold))
                < eg_args.num_outputs
          /\ Len(eg_result.nms_inputs.boxes[i]) >= eg_args.num_outputs
          /\ eg_result.slots[i].boxes[eg_args.num_outputs] = ZeroBox

\* Inputs still eligible for pick s: not picked before and with IoU below the
\* threshold against every earlier pick.
Eligible(boxes, idx, thr, s) ==
    {j \in DOMAIN boxes :
        \A t \in 1..(s - 1) : idx[t] # j /\ IouBelow(boxes[idx[t]], boxes[j], thr)}

\* C2: the output of NMS is the greedy selection: pick s is the highest-scoring
\* eligible input (lowest index among equal scores), picking stops only at K
\* picks or when nothing is eligible; hence output scores never increase, no
\* two picks have IoU >= threshold, and scores [0.9, 0.8, 0.85, 0.1] with box0
\* and box1 overlapping (and box2 clear of box0, as in the scenario), K = 2,
\* threshold 0.5 give [box0, box2].
C2_NmsGreedySelection ==
    NmsPathTaken =>
        \A i \in NmsCalls :
            LET K == eg_args.num_outputs
                thr == eg_args.nms_threshold
                boxes == eg_result.nms_inputs.boxes[i]
                scores == eg_result.nms_inputs.scores[i]
                out == eg_result.slots[i]
                idx == nms_indices(boxes, scores, K, thr)
            IN  /\ \A s \in DOMAIN idx :
                    /\ idx[s] \in Eligible(boxes, idx, thr, s)
                    /\ \A j \in Eligible(boxes, idx, thr, s) :
                          \/ scores[idx[s]] > scores[j]
                          \/ scores[idx[s]] = scores[j] /\ idx[s] <= j
                    /\ out.boxes[s] = boxes[idx[s]]
                    /\ out.scores[s] = scores[idx[s]]
                /\ Len(idx) = K \/ Eligible(boxes, idx, thr, Len(idx) + 1) = {}
                /\ \A s \in 1..(K - 1) : out.scores[s] >= out.scores[s + 1]
                /\ \A s, t \in DOMAIN idx :
                        s # t => IouBelow(out.boxes[s], out.boxes[t], thr)
                /\ (/\ [n \in DOMAIN boxes |-> scores[n]] = <<90, 80, 85, 10>>
                    /\ ~IouBelow(boxes[1], boxes[2], thr)
                    /\ IouBelow(boxes[1], boxes[3], thr)
                    /\ K = 2 /\ thr = <<1, 2>>)
                   => /\ out.boxes = <<boxes[1], boxes[3]>>
                      /\ out.scores = <<90, 85>>

\* C2 witness: the scenario has run and box1 was suppressed.
C2_Witness ==
    /\ NmsPathTaken
    /\ eg_args.num_outputs = 2
    /\ eg_args.nms_threshold = <<1, 2>>
    /\ eg_result.nms_inputs.scores[1] = <<90, 80, 85, 10>>
    /\ eg_result.slots[1].scores = <<90, 85>>
    /\ eg_result.slots[1].boxes = <<PredPool[1].box, PredPool[3].box>>

\* A final batch shorter than the configured batch size.
RaggedBatch == Len(eg_args.predicted_boxes) < eg_args.previous_batch_size

RaggedHandled ==
    LET B == Len(eg_args.predicted_boxes)
        K == eg_args.num_outputs
    IN  /\ eg_result.status = "ok"
        /\ DOMAIN eg_result.slots = 1..eg_args.previous_batch_size
        /\ \A i \in DOMAIN eg_result.slots :
              IF i <= B
              THEN eg_result.slots[i] =
                      nms_with_pad(eg_result.nms_inputs.boxes[i],
                                   eg_result.nms_inputs.scores[i],
                                   K, eg_args.nms_threshold)
              ELSE /\ \A s \in 1..K : eg_result.slots[i].boxes[s] = ZeroBox
                   /\ \A s \in 1..K : eg_result.slots[i].scores[s] = 0
        /\ DOMAIN eg_result.crop_boxes = 1..B
        /\ DOMAIN eg_result.crop_boxes_confidences = 1..B
        /\ \A i \in 1..B :
              /\ eg_result.crop_boxes[i] = eg_result.slots[i].boxes
              /\ DOMAIN eg_result.crop_boxes[i] = 1..K
              /\ DOMAIN eg_result.crop_boxes_confidences[i] = 1..K

\* C3: in extract_groups, for a final batch of true length B below the
\* configured batch size, NMS runs only on the images below B, every slot
\* from B on is all zeros instead of an error, and B rows of K crop boxes
\* and scores are returned.
C3_RaggedBatchZeroFilled ==
    (NmsPathTaken /\ RaggedBatch) => RaggedHandled

\* The same statement for include/tf_inputs.py alone, which guards each slot
\* with tf.cond(i < current_batch) and slices to current_batch.
C3_IncludeRaggedBatch ==
    (NmsPathTaken /\ RaggedBatch /\ eg_args.version = "include") => RaggedHandled

C3_IncludeWitness ==
    NmsPathTaken /\ RaggedBatch /\ eg_args.version = "include"
    /\ eg_result.status = "ok"

(***************************************************************************)
(* GridAssigner and Grouper: get_tf_dataset.parsing_function.              *)
(*                                                                         *)
(* A per-cell tensor of shape (num_cells[0], num_cells[1], ...) is a       *)
(* sequence over the first cell axis of sequences over the second.         *)
(* grid_offsets is built outside these files; it is taken as specified:    *)
(* the entry at [i][j] is the cell (i, j), which spans                     *)
(* [i/Gx, (i+1)/Gx] x [j/Gy, (j+1)/Gy] (cells counted from 0; the          *)
(* sequences here count from 1).                                           *)
(***************************************************************************)
grid_offsets(i, j) == <<i - 1, j - 1>>

grid_offsets_mins(num_cells, i, j) ==
    <<(grid_offsets(i, j)[1] * Den) \div num_cells[1],
      (grid_offsets(i, j)[2] * Den) \div num_cells[2]>>

grid_offsets_maxs(num_cells, i, j) ==
    <<((grid_offsets(i, j)[1] + 1) * Den) \div num_cells[1],
      ((grid_offsets(i, j)[2] + 1) * Den) \div num_cells[2]>>

\* A box counted only in the cell that holds its min corner.
IntersMinCorner(box, num_cells, i, j) ==
    LET gmin == grid_offsets_mins(num_cells, i, j)
        gmax == grid_offsets_maxs(num_cells, i, j)
    IN  IF /\ gmin[1] <= box[1] /\ box[1] < gmax[1]
           /\ gmin[2] <= box[2] /\ box[2] < gmax[2]
        THEN get_area(box) ELSE 0

\* inters: area of the intersection of a box with cell (i, j).
Inters(box, num_cells, i, j) ==
    LET gmin == grid_offsets_mins(num_cells, i, j)
        gmax == grid_offsets_maxs(num_cells, i, j)
    IN  Max2(0, Min2(box[3], gmax[1]) - Max2(box[1], gmin[1]))
        * Max2(0, Min2(box[4], gmax[2]) - Max2(box[2], gmin[2]))

\* obj_i_mask_bbs: 1 where the box meets the cell.
ObjIMask(bounding_boxes, num_cells) ==
    LET entry(i, j) == [n \in DOMAIN bounding_boxes |->
                          IF Inters(bounding_boxes[n], num_cells, i, j) > 0 THEN 1 ELSE 0]
    IN  [i \in 1..num_cells[1] |-> [j \in 1..num_cells[2] |-> entry(i, j)]]

\* The sequence s with its elements evaluated once (s itself, as a tuple).
Evaluated(s) == s \o <<>>

SeqSum(s) ==
    LET RECURSIVE Sum(_)
        Sum(k) == IF k = 0 THEN 0 ELSE s[k] + Sum(k - 1)
    IN  Sum(Len(s))

SeqMin(s) ==
    LET values == SeqToSet(s)
    IN  CHOOSE v \in values : \A w \in values : v <= w

SeqMax(s) ==
    LET values == SeqToSet(s)
    IN  CHOOSE v \in values : \A w \in values : v >= w

\* unique_intersect: w1 * w2 up to the positive factor Gx * Gy / num_boxes,
\* that is inters * (num_boxes - number of boxes meeting the cell).
\* The score without the co-occurrence weight w2.
UniqueScoreNoCooccurrence(bounding_boxes, num_boxes, num_cells, i, j, n) ==
    Inters(bounding_boxes[n], num_cells, i, j)

UniqueScore(bounding_boxes, num_boxes, num_cells, i, j, n) ==
    Inters(bounding_boxes[n], num_cells, i, j)
    * (num_boxes - SeqSum([m \in DOMAIN bounding_boxes |->
                    IF Inters(bounding_boxes[m], num_cells, i, j) > 0 THEN 1 ELSE 0]))

\* The density test dropped: any overlap counts.
DensityAnyOverlap(inters, num_cells) == inters > 0

\* The density test with <= in place of <.
DensityInclusive(inters, num_cells) ==
    inters > 0 /\ inters * (num_cells[1] * num_cells[2]) <= Den * Den

\* intersect_with_density: inters > 0 and inters < 1 / (Gx * Gy)
Density(inters, num_cells) ==
    inters > 0 /\ inters * (num_cells[1] * num_cells[2]) < Den * Den

\* group_mask: which boxes are merged into the group of which cell.
GroupMask(bounding_boxes, num_boxes, num_cells, grouping_method) ==
    LET score == [i \in 1..num_cells[1] |-> [j \in 1..num_cells[2] |->
                    [n \in DOMAIN bounding_boxes |->
                        UniqueScore(bounding_boxes, num_boxes, num_cells, i, j, n)]]]
        \* reduce_max over the two cell axes
        best == Evaluated([n \in DOMAIN bounding_boxes |->
                    SeqMax([i \in 1..num_cells[1] |->
                        SeqMax([j \in 1..num_cells[2] |-> score[i][j][n]])])])
        entry(i, j) == Evaluated([n \in DOMAIN bounding_boxes |->
            LET inters == Inters(bounding_boxes[n], num_cells, i, j)
            IN  IF grouping_method = "intersect_with_density"
                THEN IF Density(inters, num_cells) THEN 1 ELSE 0
                ELSE IF grouping_method = "unique_intersect"
                THEN IF num_boxes > 0 /\ score[i][j][n] > 0
                        /\ score[i][j][n] >= best[n] THEN 1 ELSE 0
                ELSE IF inters > 0 THEN 1 ELSE 0])
    IN  Evaluated([i \in 1..num_cells[1] |->
            Evaluated([j \in 1..num_cells[2] |-> entry(i, j)])])

\* The merge without the mask on the maxs.
GroupBoxUnmasked(bounding_boxes, mask) ==
    LET lo(k) == SeqMin([n \in DOMAIN bounding_boxes |->
                            bounding_boxes[n][k] + Den - Den * mask[n]])
        hi(k) == SeqMax([n \in DOMAIN bounding_boxes |-> bounding_boxes[n][k]])
    IN  <<clip_by_value(lo(1), 0, Den), clip_by_value(lo(2), 0, Den),
          clip_by_value(hi(3), 0, Den), clip_by_value(hi(4), 0, Den)>>

\* The merge without the 1 - mask offset on the mins.
GroupBoxNoOffset(bounding_boxes, mask) ==
    LET lo(k) == SeqMin([n \in DOMAIN bounding_boxes |-> bounding_boxes[n][k]])
        hi(k) == SeqMax([n \in DOMAIN bounding_boxes |->
                            bounding_boxes[n][k] * mask[n]])
    IN  <<clip_by_value(lo(1), 0, Den), clip_by_value(lo(2), 0, Den),
          clip_by_value(hi(3), 0, Den), clip_by_value(hi(4), 0, Den)>>

\* The merged box of one cell: min over boxes of (mins + 1 - mask), max over
\* boxes of (maxs * mask), clipped to [0, 1].
GroupBox(bounding_boxes, mask) ==
    LET lo(k) == SeqMin([n \in DOMAIN bounding_boxes |->
                            bounding_boxes[n][k] + Den - Den * mask[n]])
        hi(k) == SeqMax([n \in DOMAIN bounding_boxes |->
                            bounding_boxes[n][k] * mask[n]])
    IN  <<clip_by_value(lo(1), 0, Den), clip_by_value(lo(2), 0, Den),
          clip_by_value(hi(3), 0, Den), clip_by_value(hi(4), 0, Den)>>

\* tf.argmax: the first index holding the maximum (classes counted from 0).
\* The last maximal index instead of the first.
ArgMaxLast(s) == (CHOOSE k \in DOMAIN s :
                     /\ \A m \in DOMAIN s : s[k] >= s[m]
                     /\ \A m \in DOMAIN s : s[m] = s[k] => k >= m) - 1

ArgMax(s) == (CHOOSE k \in DOMAIN s :
                 /\ \A m \in DOMAIN s : s[k] >= s[m]
                 /\ \A m \in DOMAIN s : s[m] = s[k] => k <= m) - 1

OneHot(class, num_classes) ==
    [k \in 1..num_classes |-> IF k - 1 = class THEN 1 ELSE 0]

\* Majority vote: per-class counts of the boxes in the group, kept only at
\* the argmax class.
GroupClassLabels(classes, mask, num_classes) ==
    LET percell == Evaluated([k \in 1..num_classes |->
                       SeqSum([n \in DOMAIN mask |->
                                  mask[n] * OneHot(classes[n], num_classes)[k]])])
        argmax == ArgMax(percell)
    IN  [k \in 1..num_classes |-> percell[k] * OneHot(argmax, num_classes)[k]]

\* A flag for any occupied cell, not only for a cell of two boxes or more.
group_flags_any_box(num_bbs_per_cell) == Min2(num_bbs_per_cell, 1)

\* tf.maximum(tf.minimum(num_bbs_per_cell, 2.) - 1., 0.)
group_flags(num_bbs_per_cell) == Max2(Min2(num_bbs_per_cell, 2) - 1, 0)

parsing_function(ex, c) ==
    LET bounding_boxes == ex.bounding_boxes
        group_mask == GroupMask(bounding_boxes, ex.num_boxes, c.num_cells,
                                c.grouping_method)
        num_bbs_per_cell(i, j) == SeqSum(group_mask[i][j])
        group_box(i, j) == GroupBox(bounding_boxes, group_mask[i][j])
        group_flag(i, j) == group_flags(num_bbs_per_cell(i, j))
        group_class(i, j) == GroupClassLabels(ex.classes, group_mask[i][j], c.num_classes)
        occupied(i, j) == num_bbs_per_cell(i, j) > 0
    IN  [im_id |-> ex.im_id,
         image |-> ex.image,
         num_boxes |-> ex.num_boxes,
         bounding_boxes |-> bounding_boxes,
         obj_i_mask_bbs |-> ObjIMask(bounding_boxes, c.num_cells),
         group_bounding_boxes_per_cell |->
            [i \in 1..c.num_cells[1] |-> [j \in 1..c.num_cells[2] |-> group_box(i, j)]],
         num_group_boxes |-> Cardinality({cell \in (1..c.num_cells[1]) \X (1..c.num_cells[2]) :
                                            occupied(cell[1], cell[2])}),
         group_flags |->
            [i \in 1..c.num_cells[1] |-> [j \in 1..c.num_cells[2] |-> group_flag(i, j)]],
         is_flipped |-> 0,
         class_labels |-> [n \in DOMAIN ex.classes |-> OneHot(ex.classes[n], c.num_classes)],
         group_class_labels |->
            [i \in 1..c.num_cells[1] |-> [j \in 1..c.num_cells[2] |-> group_class(i, j)]]]

(***************************************************************************)
(* AugmentationStage: apply_data_augmentation.  In the batched tensors the *)
(* reversed axis [2] is the image's width and a per-cell tensor's second   *)
(* cell axis.                                                              *)
(***************************************************************************)
\* A shift by one place instead of the reversal.
RotateLeft(s) == [k \in DOMAIN s |-> s[(k % Len(s)) + 1]]

Reverse(s) == [k \in DOMAIN s |-> s[Len(s) + 1 - k]]

\* tf.reverse(t, [2]) on one sample of a per-cell tensor.
ReverseCells(t) == [i \in DOMAIN t |-> Reverse(t[i])]

Abs(v) == IF v >= 0 THEN v ELSE 0 - v

\* tf.abs([1., 0., 1., 0.] - tf.gather(box, [2, 1, 0, 3], axis=-1))
FlipBox(box) == <<Abs(Den - box[3]), Abs(0 - box[2]), Abs(Den - box[1]), Abs(0 - box[4])>>

FlipSample(r) ==
    [r EXCEPT
        !.image = Reverse(r.image),
        !.is_flipped = 1 - r.is_flipped,
        !.bounding_boxes = [n \in DOMAIN r.bounding_boxes |-> FlipBox(r.bounding_boxes[n])],
        !.obj_i_mask_bbs = ReverseCells(r.obj_i_mask_bbs),
        !.group_bounding_boxes_per_cell =
            LET rev == ReverseCells(r.group_bounding_boxes_per_cell)
            IN  [i \in DOMAIN rev |-> [j \in DOMAIN rev[i] |-> FlipBox(rev[i][j])]],
        !.group_flags = ReverseCells(r.group_flags),
        !.group_class_labels = ReverseCells(r.group_class_labels)]

\* condition[b] is the outcome of the draw for sample b: keep it as it is.
apply_data_augmentation(batch, condition) ==
    [b \in DOMAIN batch |-> IF condition[b] THEN batch[b] ELSE FlipSample(batch[b])]

\* random_uniform >= threshold (include/tf_inputs.py), > threshold (tf_inputs.py)
Condition(version, draw, data_augmentation_threshold) ==
    IF version = "include"
    THEN draw >= data_augmentation_threshold
    ELSE draw > data_augmentation_threshold

(***************************************************************************)
(* Dataset inputs and the specification SpecData.                          *)
(***************************************************************************)
MaxNumBbs == 2

\* Batch sizes: one sample, and two samples that draw independently.
BatchSizes == {1, 2}

MaxAugment == 2

ImageSize == 3

NumClasses == 2

\* Ground-truth boxes with their class: the box (0.1, 0.1, 0.5, 0.5), one
\* cell of a 2 x 2 grid exactly, a small box off the diagonal, and a wide
\* box across the vertical mid-line.
GtPool ==
    << [box |-> <<12, 12, 60, 60>>,   class |-> 0],
       [box |-> <<0, 0, 60, 60>>,     class |-> 1],
       [box |-> <<6, 66, 30, 90>>,    class |-> 0],
       [box |-> <<30, 6, 90, 30>>,    class |-> 1] >>

Grids == {<<2, 2>>, <<3, 2>>, <<4, 4>>}

GroupingMethods == {"intersect", "intersect_with_density", "unique_intersect"}

\* random_uniform draws in [0, 1) and thresholds in [0, 1], in hundredths.
Draws == {0, 50, 99}

AugmentationThresholds == {0, 50}

\* A raw record: num_boxes boxes, zero-padded to max_num_bbs.
Example(picks) ==
    [im_id |-> 1,
     image |-> [w \in 1..ImageSize |-> w],
     num_boxes |-> Len(picks),
     bounding_boxes |-> [n \in 1..MaxNumBbs |->
                            IF n <= Len(picks) THEN GtPool[picks[n]].box ELSE ZeroBox],
     classes |-> [n \in 1..MaxNumBbs |->
                            IF n <= Len(picks) THEN GtPool[picks[n]].class ELSE 0 - 1]]

InitData ==
    /\ pc = "example"
    /\ \E nb \in 0..MaxNumBbs : \E picks \in [1..nb -> DOMAIN GtPool] :
          example = Example(picks)
    /\ \E version \in {"include", "root"}, num_cells \in Grids,
          method \in GroupingMethods, thr \in AugmentationThresholds,
          batch_size \in BatchSizes :
            /\ version = "root" => method = "intersect"
            /\ cfg = [version |-> version, num_cells |-> num_cells,
                      grouping_method |-> method, num_classes |-> NumClasses,
                      data_augmentation_threshold |-> thr,
                      batch_size |-> batch_size]
    /\ in_ = <<>>
    /\ flips = [runs |-> 0, per_sample |-> [b \in 1..cfg.batch_size |-> 0]]
    /\ OnlyDataset

\* dataset.map(parsing_function) and batch: the samples of the batch are the
\* parsed record under successive image ids.
ParseBatch ==
    /\ pc = "example"
    /\ LET parsed == parsing_function(example, cfg)
       IN  in_' = [b \in 1..cfg.batch_size |-> [parsed EXCEPT !.im_id = b]]
    /\ pc' = "batch"
    /\ UNCHANGED <<example, cfg, flips, NotDataset>>

\* apply_data_augmentation, run only for a threshold above 0.
Augment ==
    /\ pc = "batch"
    /\ flips.runs < MaxAugment
    /\ cfg.data_augmentation_threshold > 0
    /\ \E draws \in [1..cfg.batch_size -> Draws] :
          LET condition == [b \in 1..cfg.batch_size |->
                  Condition(cfg.version, draws[b], cfg.data_augmentation_threshold)]
          IN  /\ in_' = apply_data_augmentation(in_, condition)
              /\ flips' = [runs |-> flips.runs + 1,
                            per_sample |-> [b \in 1..cfg.batch_size |->
                                flips.per_sample[b] + (IF condition[b] THEN 0 ELSE 1)]]
    /\ UNCHANGED <<pc, example, cfg, NotDataset>>

NextData == ParseBatch \/ Augment

SpecData == InitData /\ [][NextData]_vars

(***************************************************************************)
(* Properties of the dataset pipeline (SpecData).                          *)
(***************************************************************************)
Parsed(b) == [parsing_function(example, cfg) EXCEPT !.im_id = b]

\* How many times sample b has been flipped so far.
NumFlips(b) == flips.per_sample[b]

Cells == (1..cfg.num_cells[1]) \X (1..cfg.num_cells[2])

RealBoxes == 1..example.num_boxes

Occupies(r, n, c) == r.obj_i_mask_bbs[c[1]][c[2]][n] = 1

CurrentGroupMask ==
    GroupMask(example.bounding_boxes, example.num_boxes, cfg.num_cells, cfg.grouping_method)

Assigned(group_mask, n, c) == group_mask[c[1]][c[2]][n] = 1

\* C4: a sample flipped twice by apply_data_augmentation has its image,
\* bounding_boxes, obj_i_mask_bbs, group_bounding_boxes_per_cell,
\* group_flags, group_class_labels and is_flipped (and every other field)
\* back at the values parsing_function gave them.
C4_DoubleFlipIsIdentity ==
    pc = "batch" =>
        LET parsed == parsing_function(example, cfg)
        IN  \A b \in DOMAIN in_ :
                NumFlips(b) = 2 => in_[b] = [parsed EXCEPT !.im_id = b]

C4_Witness ==
    /\ pc = "batch"
    /\ \E b \in DOMAIN in_ :
          /\ NumFlips(b) = 2
          /\ example.num_boxes > 0
          /\ FlipSample(in_[b]) # in_[b]

\* What GridAssigner and Grouper compute from the boxes a sample now holds.
Recomputed(b) ==
    parsing_function([example EXCEPT !.bounding_boxes = in_[b].bounding_boxes], cfg)

SpatialFields(r) ==
    <<r.obj_i_mask_bbs, r.group_bounding_boxes_per_cell, r.group_flags,
      r.group_class_labels>>

\* C5: after apply_data_augmentation every sample is either untouched or
\* flipped in all of its fields with is_flipped complemented, and a flipped
\* sample's occupancy mask and group box/flag/class tensors are the ones
\* computed from its flipped boxes (x1,y1,x2,y2) -> (1-x2,y1,1-x1,y2).
C5_FlipConsistentAcrossFields ==
    pc = "batch" =>
        \A b \in DOMAIN in_ :
            \/ in_[b] = Parsed(b)
            \/ /\ in_[b].is_flipped = 1
               /\ in_[b].image = Reverse(Parsed(b).image)
               /\ \A n \in DOMAIN in_[b].bounding_boxes :
                     LET o == Parsed(b).bounding_boxes[n]
                     IN  in_[b].bounding_boxes[n] = <<Den - o[3], o[2], Den - o[1], o[4]>>
               /\ SpatialFields(in_[b]) = SpatialFields(Recomputed(b))

\* C8: the single box (0.1, 0.1, 0.5, 0.5) on a 4 x 4 grid occupies cell
\* (0, 0) and no other cell, and with method intersect that cell's group
\* box is the box and its group flag is 0.
C8Scenario ==
    /\ pc = "batch"
    /\ example.num_boxes = 1
    /\ example.bounding_boxes[1] = <<12, 12, 60, 60>>
    /\ cfg.num_cells = <<4, 4>>
    /\ cfg.grouping_method = "intersect"

C8_SingleBoxOnlyCellZero ==
    (C8Scenario /\ flips.runs = 0) =>
        /\ \A c \in Cells : Occupies(in_[1], 1, c) <=> c = <<1, 1>>
        /\ in_[1].group_bounding_boxes_per_cell[1][1] = <<12, 12, 60, 60>>
        /\ in_[1].group_flags[1][1] = 0

\* C8, amended: the box occupies exactly the four cells (0,0), (0,1),
\* (1,0), (1,1); with method intersect each of them has the box itself as
\* its group box and group flag 0, and every other cell has the empty
\* group box (1, 1, 0, 0) and flag 0.
C8_SingleBoxFourCells ==
    (C8Scenario /\ flips.runs = 0) =>
        \A c \in Cells :
            /\ Occupies(in_[1], 1, c) <=> c \in (1..2) \X (1..2)
            /\ in_[1].group_flags[c[1]][c[2]] = 0
            /\ in_[1].group_bounding_boxes_per_cell[c[1]][c[2]] =
                  IF c \in (1..2) \X (1..2) THEN <<12, 12, 60, 60>>
                  ELSE <<Den, Den, 0, 0>>

C8_Witness == C8Scenario /\ flips.runs = 0 /\ in_[1].num_group_boxes = 4

IntersectMethods == {"intersect", "intersect_with_density"}

CoversCell(box, c) ==
    Inters(box, cfg.num_cells, c[1], c[2]) * (cfg.num_cells[1] * cfg.num_cells[2])
        >= Den * Den

C10_GroupBoxContainsHull ==
    (pc = "batch" /\ flips.runs = 0) =>
        LET group_mask == CurrentGroupMask
        IN  \A c \in Cells :
            LET g == in_[1].group_bounding_boxes_per_cell[c[1]][c[2]]
                members == {n \in RealBoxes : Assigned(group_mask, n, c)}
            IN  members # {} =>
                  /\ \A n \in members :
                        LET box == example.bounding_boxes[n]
                        IN  /\ g[1] <= box[1] /\ g[2] <= box[2]
                            /\ g[3] >= box[3] /\ g[4] >= box[4]
                  /\ \A k \in 1..4 : \E n \in members : g[k] = example.bounding_boxes[n][k]

C10_Witness ==
    /\ pc = "batch" /\ flips.runs = 0
    /\ LET group_mask == CurrentGroupMask
       IN  \E c \in Cells :
          /\ \E n \in RealBoxes : Assigned(group_mask, n, c)
          /\ \E n \in RealBoxes :
                /\ ~Assigned(group_mask, n, c)
                /\ example.bounding_boxes[n][1] <
                      in_[1].group_bounding_boxes_per_cell[c[1]][c[2]][1]

(***************************************************************************)
(* CascadeBuilder: get_next_stage_inputs, the path without a queue         *)
(* (use_queue = False).  A remapped coordinate is an exact fraction        *)
(* <<num, den>> in lowest terms.                                           *)
(***************************************************************************)
RECURSIVE GCD(_, _)
GCD(a, b) == IF b = 0 THEN a ELSE GCD(b, a % b)

Frac(num, den) == <<num \div GCD(num, den), den \div GCD(num, den)>>

FracMin(p, q) == IF FracGt(p, q) THEN q ELSE p

FracMax(p, q) == IF FracGt(p, q) THEN p ELSE q

\* The whole batch repeated num_crops times, instead of each row.
tile_and_reshape_batchwise(t, num_crops) ==
    [n \in 1..(Len(t) * num_crops) |-> t[((n - 1) % Len(t)) + 1]]

\* tile_and_reshape: row n of the result is row (n - 1) div num_crops of t.
tile_and_reshape(t, num_crops) ==
    [n \in 1..(Len(t) * num_crops) |-> t[((n - 1) \div num_crops) + 1]]

\* reshape of a (batch, num_crops, ...) tensor to (batch * num_crops, ...)
FlattenCrops(t, num_crops) ==
    [n \in 1..(Len(t) * num_crops) |->
        t[((n - 1) \div num_crops) + 1][((n - 1) % num_crops) + 1]]

\* The comparison with >= in place of >.
KeepBoxInclusive(box, crop, intersection_ratio_threshold) ==
    FracGe(get_intersection_ratio(box, crop), intersection_ratio_threshold)

\* ratios > intersection_ratio_threshold
KeepBox(box, crop, intersection_ratio_threshold) ==
    FracGt(get_intersection_ratio(box, crop), intersection_ratio_threshold)

\* The division without the shift by the crop's corner.
RemapCoordNoShift(v, crop_min, crop_max) ==
    LET size == crop_max - crop_min
    IN  IF size <= 0 THEN (IF v > 0 THEN <<1, 1>> ELSE <<0, 1>>)
        ELSE Frac(clip_by_value(v, 0, size), size)

\* clip((v - crop_min) / max(epsilon, crop_max - crop_min), 0, 1): over
\* epsilon any positive numerator is clipped to 1.
RemapCoord(v, crop_min, crop_max) ==
    LET size == crop_max - crop_min
        shifted == v - crop_min
    IN  IF size <= 0 THEN (IF shifted > 0 THEN <<1, 1>> ELSE <<0, 1>>)
        ELSE Frac(clip_by_value(shifted, 0, size), size)

RemapBox(box, crop, intersection_ratio_threshold) ==
    LET kept == IF KeepBox(box, crop, intersection_ratio_threshold) THEN box ELSE ZeroBox
    IN  <<RemapCoord(kept[1], crop[1], crop[3]), RemapCoord(kept[2], crop[2], crop[4]),
          RemapCoord(kept[3], crop[1], crop[3]), RemapCoord(kept[4], crop[2], crop[4])>>

\* The comparisons with >= in place of >.
valid_boxes_inclusive(box) == FracGe(box[3], box[1]) /\ FracGe(box[4], box[2])

\* (xmax > xmin) & (ymax > ymin) on a remapped box
valid_boxes(box) == FracGt(box[3], box[1]) /\ FracGt(box[4], box[2])

\* inters > 0 for a remapped box and cell (i, j).
PatchInters(box, num_cells, i, j) ==
    LET gmin == <<Frac(grid_offsets(i, j)[1], num_cells[1]),
                  Frac(grid_offsets(i, j)[2], num_cells[2])>>
        gmax == <<Frac(grid_offsets(i, j)[1] + 1, num_cells[1]),
                  Frac(grid_offsets(i, j)[2] + 1, num_cells[2])>>
    IN  /\ FracGt(FracMin(box[3], gmax[1]), FracMax(box[1], gmin[1]))
        /\ FracGt(FracMin(box[4], gmax[2]), FracMax(box[2], gmin[2]))

get_next_stage_inputs(a) ==
    LET inputs == a.inputs
        num_crops == Len(a.crop_boxes[1])
        patches == 1..(Len(a.crop_boxes) * num_crops)
        crop_boxes_flat == FlattenCrops(a.crop_boxes, num_crops)
        crop_boxes_indices == [n \in patches |-> (n - 1) \div num_crops]
        tiled == tile_and_reshape(inputs.bounding_boxes, num_crops)
        bounding_boxes == [n \in patches |-> [m \in DOMAIN tiled[n] |->
            RemapBox(tiled[n][m], crop_boxes_flat[n], a.intersection_ratio_threshold)]]
        entry(n, i, j) == [m \in DOMAIN bounding_boxes[n] |->
            IF PatchInters(bounding_boxes[n][m], a.num_cells, i, j) THEN 1 ELSE 0]
    IN  [im_id |-> tile_and_reshape(inputs.im_id, num_crops),
         class_labels |-> tile_and_reshape(inputs.class_labels, num_crops),
         \* crop_and_resize: which image, and which window (y1, x1, y2, x2)
         image |-> [n \in patches |->
            [of |-> inputs.image[crop_boxes_indices[n] + 1],
             window |-> <<crop_boxes_flat[n][2], crop_boxes_flat[n][1],
                          crop_boxes_flat[n][4], crop_boxes_flat[n][3]>>]],
         bounding_boxes |-> bounding_boxes,
         num_boxes |-> [n \in patches |->
            Cardinality({m \in DOMAIN bounding_boxes[n] : valid_boxes(bounding_boxes[n][m])})],
         obj_i_mask_bbs |-> [n \in patches |->
            [i \in 1..a.num_cells[1] |-> [j \in 1..a.num_cells[2] |-> entry(n, i, j)]]]]

(***************************************************************************)
(* Next-stage inputs and the specification SpecCrop.                       *)
(***************************************************************************)
MaxGt == 2

MaxPatchCrops == 2

\* Ground-truth boxes: the full image, (0.1, 0.1, 0.5, 0.5), and a box in
\* the upper right quarter.
CropGtPool == <<<<0, 0, 120, 120>>, <<12, 12, 60, 60>>, <<66, 6, 114, 54>>>>

\* Crops as extract_groups returns them: squares within [0, 1], or the
\* zero box that pads the selection.
CropPool == <<<<0, 0, 60, 60>>, <<60, 0, 120, 60>>, <<0, 0, 120, 120>>, ZeroBox>>

\* intersection_ratio_threshold, within [0, 1)
RatioThresholds == {<<1, 4>>, <<1, 2>>}

PatchGrids == {<<2, 2>>, <<3, 2>>}

GtBoxes(picks) ==
    [m \in 1..MaxGt |-> IF m <= Len(picks) THEN CropGtPool[picks[m]] ELSE ZeroBox]

\* One label per box: its place in the pool, 0 for padding.
GtLabels(picks) == [m \in 1..MaxGt |-> IF m <= Len(picks) THEN picks[m] ELSE 0]

\* The second image of a batch of two: the boxes of the first in the other
\* order of the pool, under the crops of the first in reverse.
OtherPicks(picks) == [m \in DOMAIN picks |-> Len(CropGtPool) + 1 - picks[m]]

NsArgs(picks, crops, B, thr, num_cells) ==
    [inputs |->
        [im_id |-> [b \in 1..B |-> b],
         image |-> [b \in 1..B |-> b],
         class_labels |-> [b \in 1..B |->
            IF b = 1 THEN GtLabels(picks) ELSE GtLabels(OtherPicks(picks))],
         bounding_boxes |-> [b \in 1..B |->
            IF b = 1 THEN GtBoxes(picks) ELSE GtBoxes(OtherPicks(picks))]],
     crop_boxes |-> [b \in 1..B |->
        IF b = 1 THEN [k \in DOMAIN crops |-> CropPool[crops[k]]]
        ELSE Reverse([k \in DOMAIN crops |-> CropPool[crops[k]]])],
     intersection_ratio_threshold |-> thr,
     num_cells |-> num_cells]

InitCrop ==
    /\ pc = "crops"
    /\ \E nb \in 0..MaxGt, K \in 1..MaxPatchCrops, B \in BatchSizes,
          thr \in RatioThresholds, num_cells \in PatchGrids :
         \E picks \in [1..nb -> DOMAIN CropGtPool], crops \in [1..K -> DOMAIN CropPool] :
            ns_args = NsArgs(picks, crops, B, thr, num_cells)
    /\ ns_result = <<>>
    /\ OnlyNextStage

NextStage ==
    /\ pc = "crops"
    /\ ns_result' = get_next_stage_inputs(ns_args)
    /\ pc' = "patches"
    /\ UNCHANGED <<ns_args, NotNextStage>>

NextCrop == NextStage

SpecCrop == InitCrop /\ [][NextCrop]_vars

(***************************************************************************)
(* Properties of the next-stage inputs (SpecCrop).                         *)
(***************************************************************************)
Patches == DOMAIN ns_result.bounding_boxes

NumCrops == Len(ns_args.crop_boxes[1])

SourceBox(n, m) == ns_args.inputs.bounding_boxes[((n - 1) \div NumCrops) + 1][m]

PatchCrop(n) == ns_args.crop_boxes[((n - 1) \div NumCrops) + 1][((n - 1) % NumCrops) + 1]

NonDegenerate(box) == box[3] > box[1] /\ box[4] > box[2]

Inside(box, crop) ==
    /\ crop[1] <= box[1] /\ crop[2] <= box[2]
    /\ box[3] <= crop[3] /\ box[4] <= crop[4]

AffineRemap(box, crop) ==
    <<Frac(box[1] - crop[1], crop[3] - crop[1]), Frac(box[2] - crop[2], crop[4] - crop[2]),
      Frac(box[3] - crop[1], crop[3] - crop[1]), Frac(box[4] - crop[2], crop[4] - crop[2])>>

ZeroFracBox == <<<<0, 1>>, <<0, 1>>, <<0, 1>>, <<0, 1>>>>

C7Scenario(n, m) ==
    /\ ns_args.intersection_ratio_threshold = <<1, 4>>
    /\ PatchCrop(n) = <<0, 0, 60, 60>>
    /\ SourceBox(n, m) = <<0, 0, 120, 120>>

\* C7: with crop (0, 0, 0.5, 0.5), the full-image box (0, 0, 1, 1) and
\* intersection_ratio_threshold = 0.25, the box is kept and remapped to
\* (0, 0, 1, 1).
C7_FullImageBoxSurvives ==
    pc = "patches" => \A n \in Patches : \A m \in 1..MaxGt :
        C7Scenario(n, m) =>
            ns_result.bounding_boxes[n][m] = <<<<0, 1>>, <<0, 1>>, <<1, 1>>, <<1, 1>>>>

\* C7, amended: in that scenario the intersection ratio is exactly 0.25,
\* which is not above the threshold: the box is zeroed, its remapped box is
\* (0, 0, 0, 0) and it is not counted in num_boxes.
C7_FullImageBoxDropped ==
    pc = "patches" => \A n \in Patches : \A m \in 1..MaxGt :
        C7Scenario(n, m) =>
            /\ get_intersection_ratio(SourceBox(n, m), PatchCrop(n)) = <<3600, 14400>>
            /\ ns_result.bounding_boxes[n][m] = ZeroFracBox
            /\ ~valid_boxes(ns_result.bounding_boxes[n][m])
            /\ ns_result.num_boxes[n] =
                  Cardinality({k \in 1..MaxGt : k # m /\ valid_boxes(ns_result.bounding_boxes[n][k])})

C7_Witness ==
    /\ pc = "patches"
    /\ \E n \in Patches : \E m \in 1..MaxGt :
          C7Scenario(n, m) /\ ns_result.num_boxes[n] = 0

(***************************************************************************)
(* BoxGeometry at the scale of epsilon: get_iou on boxes whose areas are   *)
(* of the order of epsilon = 1e-8, and the specification SpecIou.  Here    *)
(* the unit of length is such that epsilon is a whole number of area       *)
(* units; epsilon = 0 stands for an epsilon below one area unit, the scale *)
(* of the rest of the model.                                               *)
(***************************************************************************)
\* The quotient with a floor of one area unit, whatever epsilon is.
get_iou_unit_floor(A, B, epsilon) ==
    LET intersection == get_intersection(A, B)
        union == get_area(A) + get_area(B) - intersection
    IN  <<intersection, Max2(1, union)>>

\* intersection / tf.maximum(epsilon, union)
get_iou_epsilon(A, B, epsilon) ==
    LET intersection == get_intersection(A, B)
        union == get_area(A) + get_area(B) - intersection
    IN  IF epsilon = 0 THEN get_iou(A, B) ELSE <<intersection, Max2(epsilon, union)>>

MaxCoord == 2

EpsilonAreas == {0, 2}

\* Every quadruple of coordinates, boxes with xmax < xmin included.
TinyBoxes == (0..MaxCoord) \X (0..MaxCoord) \X (0..MaxCoord) \X (0..MaxCoord)

InitIou ==
    /\ pc = "get_iou"
    /\ \E A \in TinyBoxes, B \in TinyBoxes, epsilon \in EpsilonAreas :
          geo = [A |-> A, B |-> B, epsilon |-> epsilon, iou |-> <<>>, iou_self |-> <<>>]
    /\ OnlyGeometry

\* get_iou(A, B) and get_iou(A, A)
GetIou ==
    /\ pc = "get_iou"
    /\ geo' = [geo EXCEPT !.iou = get_iou_epsilon(geo.A, geo.B, geo.epsilon),
                          !.iou_self = get_iou_epsilon(geo.A, geo.A, geo.epsilon)]
    /\ pc' = "returned"
    /\ UNCHANGED NotGeometry

NextIou == GetIou

SpecIou == InitIou /\ [][NextIou]_vars

(***************************************************************************)
(* Properties of get_iou (SpecIou).                                        *)
(***************************************************************************)
Overlap(A, B) ==
    /\ Max2(A[1], B[1]) < Min2(A[3], B[3])
    /\ Max2(A[2], B[2]) < Min2(A[4], B[4])

IouInUnitInterval == geo.iou[2] > 0 /\ 0 <= geo.iou[1] /\ geo.iou[1] <= geo.iou[2]

IouZeroWithoutOverlap == ~Overlap(geo.A, geo.B) => geo.iou[1] = 0

\* C11: 0 <= get_iou(A, B) <= 1 for all boxes, get_iou(A, A) = 1 for every
\* non-degenerate A, and get_iou(A, B) = 0 whenever A and B do not overlap.
C11_IouOneOnEveryBox ==
    pc = "returned" =>
        /\ IouInUnitInterval
        /\ NonDegenerate(geo.A) => geo.iou_self[1] = geo.iou_self[2]
        /\ IouZeroWithoutOverlap

\* C11, amended: 0 <= get_iou(A, B) <= 1 for all boxes; get_iou(A, B) = 0
\* whenever A and B do not overlap; get_iou(A, A) = 1 for every A whose
\* area is at least epsilon, and area(A) / epsilon < 1 for a non-degenerate
\* A whose area is below epsilon.
C11_IouOneFromEpsilonUp ==
    pc = "returned" =>
        /\ IouInUnitInterval
        /\ IouZeroWithoutOverlap
        /\ NonDegenerate(geo.A) =>
              IF get_area(geo.A) >= geo.epsilon
              THEN geo.iou_self[1] = geo.iou_self[2]
              ELSE /\ geo.iou_self = <<get_area(geo.A), geo.epsilon>>
                   /\ geo.iou_self[1] < geo.iou_self[2]

C11_Witness ==
    /\ pc = "returned"
    /\ NonDegenerate(geo.A) /\ get_area(geo.A) < geo.epsilon
    /\ Overlap(geo.A, geo.B) /\ geo.A # geo.B

(***************************************************************************)
(* ShortcutFilter, ScoreFilter and OffsetRescaler inside extract_groups:   *)
(* the specification SpecFilter runs extract_groups over modes, group      *)
(* logits, thresholds and offsets, on full batches.                        *)
(***************************************************************************)
\* The predictions of PredPool and one of score exactly 0.
FilterPool == PredPool \o << [box |-> <<60, 0, 120, 60>>, score |-> 0] >>

FilterImages == {<<1, 2, 3, 4>>, <<6, 1>>, <<5, 3, 6>>}

\* Group logits: "none" for no group head, else logits -1, 0, 1 by index.
GroupLogits == {"none", "from_zero", "from_one"}

group_logit(pattern, n) ==
    IF pattern = "from_zero" THEN (n % 3) - 1 ELSE ((n + 1) % 3) - 1

\* Offsets: "none" for no offsets head, halves and ones by index, or zeros.
OffsetHeads == {"none", "halves", "zeros"}

offset_pair(pattern, n) ==
    IF pattern = "zeros" THEN <<<<0, 1>>, <<0, 1>>>>
    ELSE IF n % 2 = 1 THEN <<<<1, 1>>, <<1, 2>>>>
    ELSE <<<<1, 2>>, <<1, 1>>>>

StrongThresholds == {50, 100}

FilterConfidenceThresholds == {0, 50, 95}

FilterNmsThresholds == {<<1, 2>>, <<1, 1>>}

FilterArgs(version, mode, img, B, K, nms_thr, conf, strong, logits, offsets) ==
    [version |-> version,
     mode |-> mode,
     predicted_boxes |-> [b \in 1..B |->
         [n \in DOMAIN img |-> FilterPool[RotateImage(img, b - 1)[n]].box]],
     predicted_scores |-> [b \in 1..B |->
         [n \in DOMAIN img |-> FilterPool[RotateImage(img, b - 1)[n]].score]],
     has_group_flags |-> logits # "none",
     predicted_group_flags |->
         IF logits = "none" THEN <<>>
         ELSE [b \in 1..B |-> [n \in DOMAIN img |-> group_logit(logits, n + b)]],
     has_offsets |-> offsets # "none",
     predicted_offsets |->
         IF offsets = "none" THEN <<>>
         ELSE [b \in 1..B |-> [n \in DOMAIN img |-> offset_pair(offsets, n + b)]],
     confidence_threshold |-> conf,
     strong_confidence_threshold |-> strong,
     nms_threshold |-> nms_thr,
     num_outputs |-> K,
     previous_batch_size |-> B]

InitFilter ==
    /\ pc = "extract_groups"
    /\ \E version \in {"include", "root"}, mode \in {"train", "val", "test"},
          img \in FilterImages, B \in 1..MaxBatch, K \in 0..MaxCrops,
          nms_thr \in FilterNmsThresholds, conf \in FilterConfidenceThresholds,
          strong \in StrongThresholds, logits \in GroupLogits, offsets \in OffsetHeads :
            /\ version = "root" => (K >= 1 /\ mode # "val")
            /\ eg_args = FilterArgs(version, mode, img, B, K, nms_thr, conf, strong,
                                    logits, offsets)
    /\ eg_result = <<>>
    /\ OnlyCropSelection

SpecFilter == InitFilter /\ [][NextNMS]_vars

(***************************************************************************)
(* Properties of the filters (SpecFilter).                                 *)
(***************************************************************************)
Returned == pc = "crops" /\ eg_result.status = "ok"

Predictions == {bn \in (DOMAIN eg_args.predicted_scores) \X (1..MaxPred + 1) :
                    bn[2] \in DOMAIN eg_args.predicted_scores[bn[1]]}

Score(bn) == eg_args.predicted_scores[bn[1]][bn[2]]

IsIndividual(bn) ==
    ~eg_args.has_group_flags \/ eg_args.predicted_group_flags[bn[1]][bn[2]] <= 0

KeptOut(bn) == eg_result.kept_out_filter[bn[1]][bn[2]] = 1

\* What the refinement path holds for a prediction after the filters and
\* the rescaling.
Refined(bn) ==
    [box |-> eg_result.nms_inputs.boxes[bn[1]][bn[2]],
     score |-> eg_result.nms_inputs.scores[bn[1]][bn[2]]]

Zeroed(bn) == Refined(bn) = [box |-> ZeroBox, score |-> 0]

ShortcutEnabled ==
    eg_args.mode \in {"test", "val"} /\ eg_args.strong_confidence_threshold < 100

\* C12: in test/val mode with a strong threshold below 1.0, kept_out_filter
\* is 1 for a prediction iff it is not a group (sigmoid(logit) <= 0.5; every
\* prediction when there is no group head) and its score exceeds the strong
\* threshold, and such a prediction has box and score zeroed in the
\* refinement path; in train mode or with a strong threshold >= 1.0
\* kept_out_filter is all zero.
C12_ShortcutFilter ==
    (Returned /\ eg_args.version = "include") =>
        \A bn \in Predictions :
            /\ eg_result.kept_out_filter[bn[1]][bn[2]] \in {0, 1}
            /\ KeptOut(bn) <=>
                  /\ ShortcutEnabled
                  /\ IsIndividual(bn)
                  /\ Score(bn) > eg_args.strong_confidence_threshold
            /\ KeptOut(bn) => Zeroed(bn)

C12_Witness ==
    /\ Returned /\ eg_args.version = "include" /\ eg_args.has_group_flags
    /\ \E bn, cm \in Predictions :
          /\ KeptOut(bn) /\ eg_args.predicted_group_flags[bn[1]][bn[2]] = 0
          /\ eg_args.has_offsets /\ eg_args.predicted_boxes[bn[1]][bn[2]] # ZeroBox
          /\ ~KeptOut(cm) /\ Score(cm) > eg_args.strong_confidence_threshold

Unfiltered(bn) ==
    [box |-> IF eg_args.has_offsets
             THEN RescaleBox(eg_args.predicted_boxes[bn[1]][bn[2]],
                             eg_args.predicted_offsets[bn[1]][bn[2]])
             ELSE eg_args.predicted_boxes[bn[1]][bn[2]],
     score |-> Score(bn)]

\* C13: after the score filter, for every configured confidence_threshold,
\* a non-shortcut prediction with score <= confidence_threshold has box and
\* score zero, and one with a score above it keeps box and score.
C13_ScoreFilterZeroes ==
    Returned =>
        \A bn \in Predictions :
            ~KeptOut(bn) =>
                IF Score(bn) <= eg_args.confidence_threshold
                THEN Zeroed(bn)
                ELSE Refined(bn) = Unfiltered(bn)

\* The same for a positive threshold, in both copies of extract_groups.
C13_PositiveThreshold ==
    (Returned /\ eg_args.confidence_threshold > 0) =>
        \A bn \in Predictions :
            ~KeptOut(bn) =>
                IF Score(bn) <= eg_args.confidence_threshold
                THEN Zeroed(bn)
                ELSE Refined(bn) = Unfiltered(bn)

C13_PositiveWitness ==
    /\ Returned /\ eg_args.confidence_threshold > 0
    /\ \E bn, cm \in Predictions :
          /\ ~KeptOut(bn) /\ Score(bn) > 0 /\ Score(bn) <= eg_args.confidence_threshold
          /\ ~KeptOut(cm) /\ Score(cm) > eg_args.confidence_threshold

\* Every prediction of image b is zeroed by one of the two filters.
AllFilteredOut(b) ==
    \A n \in DOMAIN eg_args.predicted_scores[b] :
        \/ KeptOut(<<b, n>>)
        \/ /\ eg_args.confidence_threshold > 0 \/ eg_args.version = "root"
           /\ Score(<<b, n>>) <= eg_args.confidence_threshold

\* Every image has at least K predictions (tf.nn.top_k needs them).
EnoughPredictions ==
    \A b \in DOMAIN eg_args.predicted_scores :
        Len(eg_args.predicted_scores[b]) >= eg_args.num_outputs

get_tf_dataset_asserts(c) ==
    IF /\ c.grouping_method \in {"intersect", "intersect_with_density", "unique_intersect"}
       /\ ~(c.with_classes /\ c.num_classes = <<>>)
       /\ c.num_record_keys > 0
       /\ c.batch_size > 0
       /\ c.image_size > 0
       /\ 0 <= c.data_augmentation_threshold /\ c.data_augmentation_threshold <= 100
       /\ c.num_devices > 0
       /\ c.num_threads > 0
       /\ c.shuffle_buffer > 0
    THEN "built" ELSE "AssertionError"

\* extract_groups: the only check is the one on mode; the rest of the call
\* builds the graph.
extract_groups_checks(c) ==
    IF extract_groups(FilterArgs("include", c.mode, ScenarioImage, 1, c.num_outputs,
                                 c.nms_threshold, 50, 100, "none", "none")).status = "ok"
    THEN "built" ELSE "ValueError"

\* assert 0. <= intersection_ratio_threshold < 1.
get_next_stage_inputs_asserts(c) ==
    IF /\ FracGe(c.intersection_ratio_threshold, <<0, 1>>)
       /\ FracGt(<<1, 1>>, c.intersection_ratio_threshold)
       /\ c.use_queue => c.batch_size # <<>>
    THEN "built" ELSE "AssertionError"

Construct(fn, c) ==
    IF fn = "get_tf_dataset" THEN get_tf_dataset_asserts(c)
    ELSE IF fn = "extract_groups" THEN extract_groups_checks(c)
    ELSE get_next_stage_inputs_asserts(c)

\* Fractions below, at the ends of, inside and above [0, 1].
ThresholdValues == {<<0 - 1, 2>>, <<0, 1>>, <<1, 2>>, <<1, 1>>, <<3, 2>>}

DatasetConfigs ==
    [grouping_method : {"intersect", "intersect_with_density", "unique_intersect", "union"},
     with_classes : BOOLEAN,
     num_classes : {<<>>, <<NumClasses>>},
     num_record_keys : {3},
     batch_size : {0, 1},
     image_size : {1024},
     data_augmentation_threshold : {0 - 50, 0, 50, 100, 150},
     num_devices : {1},
     num_threads : {4},
     shuffle_buffer : {1}]

CropSelectionConfigs ==
    [mode : {"train", "val", "test", "eval"},
     nms_threshold : ThresholdValues,
     num_outputs : {1, 2}]

NextStageConfigs ==
    [intersection_ratio_threshold : ThresholdValues,
     use_queue : BOOLEAN,
     batch_size : {<<>>, <<MaxBatch>>}]

InitBuild ==
    /\ pc = "construct"
    /\ \/ \E c \in DatasetConfigs :
             build = [fn |-> "get_tf_dataset", config |-> c, status |-> "none"]
       \/ \E c \in CropSelectionConfigs :
             build = [fn |-> "extract_groups", config |-> c, status |-> "none"]
       \/ \E c \in NextStageConfigs :
             build = [fn |-> "get_next_stage_inputs", config |-> c, status |-> "none"]
    /\ OnlyConstruction

BuildPipeline ==
    /\ pc = "construct"
    /\ build' = [build EXCEPT !.status = Construct(build.fn, build.config)]
    /\ pc' = IF Construct(build.fn, build.config) = "built" THEN "built" ELSE "raised"
    /\ UNCHANGED NotConstruction

\* The built pipeline is run and processes its first record.
ProcessRecords ==
    /\ pc = "built"
    /\ pc' = "running"
    /\ UNCHANGED <<build, NotConstruction>>

NextBuild == BuildPipeline \/ ProcessRecords

SpecBuild == InitBuild /\ [][NextBuild]_vars

(***************************************************************************)
(* Properties of pipeline construction (SpecBuild).                        *)
(***************************************************************************)
InUnitInterval(t) == FracGe(t, <<0, 1>>) /\ FracGe(<<1, 1>>, t)

\* The configuration errors the specification lists.
ConfigurationError ==
    \/ /\ build.fn = "get_tf_dataset"
       /\ \/ build.config.grouping_method \notin GroupingMethods
          \/ build.config.with_classes /\ build.config.num_classes = <<>>
          \/ build.config.data_augmentation_threshold < 0
          \/ build.config.data_augmentation_threshold > 100
    \/ /\ build.fn = "extract_groups"
       /\ \/ build.config.mode \notin {"train", "val", "test"}
          \/ ~InUnitInterval(build.config.nms_threshold)
    \/ /\ build.fn = "get_next_stage_inputs"
       /\ \/ ~InUnitInterval(build.config.intersection_ratio_threshold)
          \/ build.config.intersection_ratio_threshold = <<1, 1>>

\* C15: every configuration error (unknown grouping method, unknown mode,
\* with_classes without a class count, a threshold outside its range) is
\* raised at construction: no pipeline with such a configuration is built
\* and processes records.
C15_ConfigErrorsRejected ==
    (pc \in {"built", "running"}) => ~ConfigurationError

\* All of them but the range of the NMS threshold are rejected.
C15_RejectedButNmsRange ==
    (pc \in {"built", "running"} /\ ConfigurationError) =>
        /\ build.fn = "extract_groups"
        /\ build.config.mode \in {"train", "val", "test"}
        /\ ~InUnitInterval(build.config.nms_threshold)

(***************************************************************************)
(* The batching queue of get_next_stage_inputs (use_queue): the patches of *)
(* each run of the graph are filtered by filter_valid and enqueued by      *)
(* num_threads queue-runner threads; the consumer dequeues batch_size of   *)
(* them at a time.  tf.train.maybe_batch is called without                 *)
(* allow_smaller_final_batch, so the consumer's op is dequeue_many; with   *)
(* shuffle_buffer > 1 the root copy uses tf.train.maybe_shuffle_batch, a   *)
(* queue that hands out its elements in any order and keeps shuffle_buffer *)
(* of them back until it is closed.  Enqueue and dequeue move one element  *)
(* at a time, so the threads interleave at element granularity.            *)
(***************************************************************************)
filter_valid_x_only(crop_box) == crop_box[3] > crop_box[1]

\* crop_boxes[..., 2] > crop_boxes[..., 0] and crop_boxes[..., 3] > crop_boxes[..., 1]
filter_valid(crop_box) == crop_box[3] > crop_box[1] /\ crop_box[4] > crop_box[2]

\* The patches of one run that maybe_batch lets into the queue, in order.
RECURSIVE KeepInput(_)
KeepInput(patches) ==
    IF patches = <<>> THEN <<>>
    ELSE IF filter_valid(Head(patches).crop_box)
         THEN <<Head(patches)>> \o KeepInput(Tail(patches))
         ELSE KeepInput(Tail(patches))

\* Removes element i of a sequence.
RemoveAt(s, i) == SubSeq(s, 1, i - 1) \o SubSeq(s, i + 1, Len(s))

MaxRuns == 2

\* The crop boxes of the patches of one run of the graph: valid ones,
\* a zero box, a box of no height and a box of no width.
RunPool ==
    { <<<<0, 0, 60, 60>>, ZeroBox>>,
      <<<<0, 0, 60, 60>>, <<60, 0, 120, 60>>>>,
      <<<<0, 60, 60, 60>>, <<0, 0, 120, 120>>>>,
      <<<<60, 0, 60, 120>>, ZeroBox>> }

Runs == UNION { [1..n -> RunPool] : n \in 1..MaxRuns }

\* Patch i of run r.
RunPatches(runs, r) ==
    [i \in DOMAIN runs[r] |-> [run |-> r, index |-> i, crop_box |-> runs[r][i]]]

QueueBatchSizes == {1, 2, 3}

Capacities == {1, 3}

ThreadCounts == {1, 2}

ShuffleBuffers == {1, 2}

InitQueue ==
    /\ pc = "batching"
    /\ \E runs \in Runs, batch_size \in QueueBatchSizes, capacity \in Capacities,
          num_threads \in ThreadCounts, shuffle_buffer \in ShuffleBuffers,
          version \in {"include", "root"} :
          /\ version = "include" => shuffle_buffer = 1
          /\ shuffle_buffer > 1 => capacity > shuffle_buffer
          /\ queue = [version |-> version,
                      batch_size |-> batch_size,
                      capacity |-> capacity,
                      shuffle_buffer |-> shuffle_buffer,
                      runs |-> runs,
                      next_run |-> 1,
                      pending |-> [t \in 1..num_threads |-> <<>>],
                      stopped |-> {},
                      elements |-> <<>>,
                      taken |-> <<>>,
                      closed |-> FALSE,
                      delivered |-> <<>>]
    /\ OnlyQueue

Threads == DOMAIN queue.pending

\* A thread runs the graph once more and holds the patches that
\* filter_valid lets through.
RunGraph(t) ==
    /\ pc = "batching"
    /\ t \notin queue.stopped
    /\ queue.pending[t] = <<>>
    /\ queue.next_run <= Len(queue.runs)
    /\ queue' = [queue EXCEPT
                    !.pending[t] = KeepInput(RunPatches(queue.runs, queue.next_run)),
                    !.next_run = queue.next_run + 1]
    /\ UNCHANGED <<pc, NotQueue>>

\* An enqueue that does not wait for room.
EnqueueUnbounded(t) ==
    /\ queue.pending[t] # <<>>
    /\ queue' = [queue EXCEPT
                    !.pending[t] = Tail(queue.pending[t]),
                    !.elements = Append(queue.elements, Head(queue.pending[t]))]
    /\ UNCHANGED <<pc, NotQueue>>

\* enqueue_many: one more element goes in when there is room.
Enqueue(t) ==
    /\ queue.pending[t] # <<>>
    /\ Len(queue.elements) < queue.capacity
    /\ queue' = [queue EXCEPT
                    !.pending[t] = Tail(queue.pending[t]),
                    !.elements = Append(queue.elements, Head(queue.pending[t]))]
    /\ UNCHANGED <<pc, NotQueue>>

\* The input is exhausted: the thread stops, and the last one to stop
\* closes the queue.
StopThread(t) ==
    /\ t \notin queue.stopped
    /\ queue.pending[t] = <<>>
    /\ queue.next_run > Len(queue.runs)
    /\ queue' = [queue EXCEPT
                    !.stopped = queue.stopped \cup {t},
                    !.closed = (queue.stopped \cup {t} = Threads)]
    /\ UNCHANGED <<pc, NotQueue>>

\* min_after_dequeue of the shuffling queue; the plain queue has none.
MinAfterDequeue ==
    IF queue.shuffle_buffer > 1 /\ ~queue.closed THEN queue.shuffle_buffer ELSE 0

\* The positions the queue may hand out next.
Dequeuable ==
    IF queue.shuffle_buffer > 1 THEN DOMAIN queue.elements
    ELSE {i \in DOMAIN queue.elements : i = 1}

\* dequeue_many(batch_size): the consumer takes one more element, and gets
\* its batch with the last one.
Dequeue ==
    /\ pc = "batching"
    /\ Len(queue.elements) > MinAfterDequeue
    /\ ~(queue.closed /\ Len(queue.elements) + Len(queue.taken) < queue.batch_size)
    /\ \E i \in Dequeuable :
          LET taken == Append(queue.taken, queue.elements[i])
          IN  queue' = [queue EXCEPT
                  !.elements = RemoveAt(queue.elements, i),
                  !.taken = IF Len(taken) = queue.batch_size THEN <<>> ELSE taken,
                  !.delivered = IF Len(taken) = queue.batch_size
                                THEN Append(queue.delivered, taken)
                                ELSE queue.delivered]
    /\ UNCHANGED <<pc, NotQueue>>

\* The queue is closed with fewer than batch_size elements left: the
\* elements taken so far go back and dequeue_many fails with
\* OutOfRangeError, now and on every later call.
OutOfRange ==
    /\ pc = "batching"
    /\ queue.closed
    /\ Len(queue.elements) + Len(queue.taken) < queue.batch_size
    /\ queue' = [queue EXCEPT !.elements = queue.taken \o queue.elements,
                              !.taken = <<>>]
    /\ pc' = "out_of_range"
    /\ UNCHANGED NotQueue

NextQueue ==
    \/ \E t \in Threads : RunGraph(t)
    \/ \E t \in Threads : Enqueue(t)
    \/ \E t \in Threads : StopThread(t)
    \/ Dequeue
    \/ OutOfRange

SpecQueue == InitQueue /\ [][NextQueue]_vars

\* The threads and the consumer keep running while they can.
SpecQueueFair == SpecQueue /\ WF_vars(NextQueue)

\* Cancellation (a stop request to the queue runners): the queue is closed
\* with its pending enqueues cancelled, so what the threads still hold is
\* dropped and they stop; what is in the queue stays.
Cancel ==
    /\ pc = "batching"
    /\ ~queue.closed
    /\ queue' = [queue EXCEPT
                    !.pending = [t \in Threads |-> <<>>],
                    !.stopped = Threads,
                    !.closed = TRUE]
    /\ UNCHANGED <<pc, NotQueue>>

NextQueueCancel == NextQueue \/ Cancel

SpecQueueCancel == InitQueue /\ [][NextQueueCancel]_vars

(***************************************************************************)
(* Properties of the batching queue (SpecQueue, SpecQueueFair).            *)
(***************************************************************************)
Degenerate(crop_box) == crop_box[3] <= crop_box[1] \/ crop_box[4] <= crop_box[2]

\* Every record the queue or the consumer holds or has held.
Admitted ==
    SeqToSet(queue.elements) \cup SeqToSet(queue.taken)
        \cup UNION {SeqToSet(queue.delivered[k]) : k \in DOMAIN queue.delivered}

\* The patches of the runs made so far that have a degenerate crop box.
RejectedSoFar ==
    {p \in UNION {SeqToSet(RunPatches(queue.runs, r)) : r \in 1..(queue.next_run - 1)} :
        Degenerate(p.crop_box)}

\* C16: with the queue in use, every batch delivered to the consumer has
\* exactly batch_size records, and no record with a degenerate crop box
\* (xmax <= xmin or ymax <= ymin) is in the queue, in the consumer's hands
\* or in a delivered batch, whatever the interleaving of the threads.
C16_FullBatchesNoDegenerate ==
    /\ \A k \in DOMAIN queue.delivered : Len(queue.delivered[k]) = queue.batch_size
    /\ \A p \in Admitted : ~Degenerate(p.crop_box)
    /\ \A t \in Threads : \A k \in DOMAIN queue.pending[t] :
          ~Degenerate(queue.pending[t][k].crop_box)

\* Two threads have produced, a box of no height was rejected and a batch
\* of two records was delivered.
C16_Witness ==
    /\ Cardinality(Threads) = 2
    /\ queue.next_run > 2
    /\ \E p \in RejectedSoFar : p.crop_box[4] <= p.crop_box[2] /\ p.crop_box[3] > p.crop_box[1]
    /\ \E k \in DOMAIN queue.delivered : Len(queue.delivered[k]) = 2

\* The producers are done and fewer than batch_size records are left.
ShortRemainder ==
    /\ queue.closed
    /\ Len(queue.elements) + Len(queue.taken) > 0
    /\ Len(queue.elements) + Len(queue.taken) < queue.batch_size

\* C17: when the producers have finished and fewer than batch_size records
\* remain, the consumer does not wait forever and the remaining records
\* are eventually delivered, padded or as a short batch.
C17_RemainderDelivered ==
    ShortRemainder ~> (queue.elements = <<>> /\ queue.taken = <<>>)

\* The consumer does not wait forever: its dequeue ends with an error.
C17_ConsumerReleased == ShortRemainder ~> (pc = "out_of_range")

\* The records of a short remainder are still in the queue after the
\* error and are in no batch.
C17_RemainderLeftBehind ==
    pc = "out_of_range" =>
        /\ queue.taken = <<>>
        /\ \A k \in DOMAIN queue.elements : \A d \in DOMAIN queue.delivered :
              queue.elements[k] \notin SeqToSet(queue.delivered[d])

(***************************************************************************)
(* Padding of bounding_boxes (SpecData, SpecCrop).                         *)
(***************************************************************************)
\* The valid boxes of a record are its first num_boxes entries and the
\* entries after them are the zero box.
ValidPrefixZeroPadded(bounding_boxes, num_boxes, zero) ==
    \A m \in DOMAIN bounding_boxes :
        IF m <= num_boxes THEN bounding_boxes[m] # zero
        ELSE bounding_boxes[m] = zero

\* C18: in every record of the batch, as parsed and after any number of
\* runs of apply_data_augmentation, the valid boxes are the first
\* num_boxes entries of bounding_boxes and every entry beyond them is the
\* zero box (0, 0, 0, 0).
C18_ValidPrefixZeroPadded ==
    pc = "batch" =>
        \A b \in DOMAIN in_ :
            ValidPrefixZeroPadded(in_[b].bounding_boxes, in_[b].num_boxes, ZeroBox)

\* It holds of the records as parsed and of every sample not flipped, or
\* flipped back.
C18_PaddedUnlessFlipped ==
    pc = "batch" =>
        \A b \in DOMAIN in_ :
            in_[b].is_flipped = 0 =>
                ValidPrefixZeroPadded(in_[b].bounding_boxes, in_[b].num_boxes, ZeroBox)

\* A flipped sample has the box (1, 0, 1, 0) in each padding entry.
C18_FlippedPadding ==
    pc = "batch" =>
        \A b \in DOMAIN in_ : \A m \in DOMAIN in_[b].bounding_boxes :
            (in_[b].is_flipped = 1 /\ m > in_[b].num_boxes) =>
                in_[b].bounding_boxes[m] = <<Den, 0, Den, 0>>

\* The same statement of the next-stage records: it fails when a box is
\* cut out ahead of one that is kept.
C18_NextStagePadded ==
    pc = "patches" =>
        \A n \in Patches :
            ValidPrefixZeroPadded(ns_result.bounding_boxes[n], ns_result.num_boxes[n],
                                  ZeroFracBox)

(***************************************************************************)
(* Properties of unique_intersect (SpecData).                              *)
(***************************************************************************)
\* How many boxes of the image meet cell c, by the occupancy mask of the
\* parsed record.
OccupiedCount(c) ==
    Cardinality({m \in DOMAIN example.bounding_boxes : Occupies(in_[1], m, c)})

\* w1 * w2 of box n in cell c, in units of 1 / (Den^2 * num_boxes):
\* w1 = inters * Gx * Gy and w2 = 1 - count / num_boxes.
W1W2(n, c) ==
    (Inters(example.bounding_boxes[n], cfg.num_cells, c[1], c[2])
        * cfg.num_cells[1] * cfg.num_cells[2])
    * (example.num_boxes - OccupiedCount(c))

IsMaximal(n, c) == \A d \in Cells : W1W2(n, c) >= W1W2(n, d)

\* Two different cells both have the maximal score of box n.
TiedAtMaximum(n) ==
    \E c \in Cells, d \in Cells : c # d /\ IsMaximal(n, c) /\ IsMaximal(n, d)

\* Every box of the image meets the same cells.
AllShareCells ==
    \A n \in RealBoxes, m \in RealBoxes : \A c \in Cells :
        Occupies(in_[1], n, c) <=> Occupies(in_[1], m, c)

UniqueIntersectParsed ==
    pc = "batch" /\ flips.runs = 0 /\ cfg.grouping_method = "unique_intersect"

\* C19: with method unique_intersect every valid box is in the group mask
\* of exactly one cell whenever no two cells tie for its maximal score,
\* and in particular in an image with a single box and in an image whose
\* boxes all share the same cells.
C19_ExactlyOneCell ==
    UniqueIntersectParsed =>
        LET group_mask == CurrentGroupMask
        IN  \A n \in RealBoxes :
                (~TiedAtMaximum(n) \/ example.num_boxes = 1 \/ AllShareCells) =>
                    Cardinality({c \in Cells : Assigned(group_mask, n, c)}) = 1

\* Without a tie at the maximum the box is in exactly one cell.
C19_OneCellWithoutTie ==
    UniqueIntersectParsed =>
        LET group_mask == CurrentGroupMask
        IN  \A n \in RealBoxes :
                ~TiedAtMaximum(n) =>
                    Cardinality({c \in Cells : Assigned(group_mask, n, c)}) = 1

\* A single box, and boxes that all share their cells, are in no cell.
C19_SharedCellsUnassigned ==
    UniqueIntersectParsed =>
        LET group_mask == CurrentGroupMask
        IN  \A n \in RealBoxes :
                (example.num_boxes = 1 \/ AllShareCells) =>
                    \A c \in Cells : ~Assigned(group_mask, n, c)

DensityParsed ==
    pc = "batch" /\ flips.runs = 0 /\ cfg.grouping_method = "intersect_with_density"

\* Area of a cell times Gx * Gy, in the units of Inters.
UnitArea == Den * Den

CellShare(n, c) ==
    Inters(example.bounding_boxes[n], cfg.num_cells, c[1], c[2])
        * (cfg.num_cells[1] * cfg.num_cells[2])

FreshlyParsed == pc = "batch" /\ flips.runs = 0

\* The boxes the group mask assigns to cell c.
AssignedBoxes(group_mask, c) ==
    {n \in DOMAIN example.bounding_boxes : Assigned(group_mask, n, c)}

\* C22: for every cell and every grouping method, group_flag is 1 iff at
\* least two boxes are assigned to the cell by the group mask and 0 when
\* none or one is, and num_group_boxes is the number of cells of the image
\* with at least one assigned box.
C22_GroupFlagAndCount ==
    FreshlyParsed =>
        LET group_mask == CurrentGroupMask
        IN  /\ \A c \in Cells :
                  in_[1].group_flags[c[1]][c[2]] =
                      IF Cardinality(AssignedBoxes(group_mask, c)) >= 2 THEN 1 ELSE 0
            /\ in_[1].num_group_boxes =
                  Cardinality({c \in Cells : AssignedBoxes(group_mask, c) # {}})

\* A cell of two boxes, a cell of one box and an empty cell in one image.
C22_Witness ==
    /\ FreshlyParsed
    /\ \E c \in Cells, d \in Cells, e \in Cells :
          /\ Cardinality(AssignedBoxes(CurrentGroupMask, c)) = 2
          /\ in_[1].group_flags[c[1]][c[2]] = 1
          /\ Cardinality(AssignedBoxes(CurrentGroupMask, d)) = 1
          /\ in_[1].group_flags[d[1]][d[2]] = 0
          /\ AssignedBoxes(CurrentGroupMask, e) = {}
          /\ in_[1].group_flags[e[1]][e[2]] = 0

ClassIndices == 1..cfg.num_classes

\* The votes of class index k among the boxes assigned to cell c.
Votes(group_mask, c, k) ==
    Cardinality({n \in AssignedBoxes(group_mask, c) : example.classes[n] = k - 1})

\* The class index with the most votes in cell c, the lowest one on a tie.
Winner(group_mask, c) ==
    CHOOSE k \in ClassIndices :
        /\ \A m \in ClassIndices : Votes(group_mask, c, k) >= Votes(group_mask, c, m)
        /\ \A m \in ClassIndices :
              Votes(group_mask, c, m) = Votes(group_mask, c, k) => k <= m

\* C23: in every cell group_class_labels has at most one non-zero entry,
\* at the class with the most votes among the boxes assigned to the cell
\* (the lowest class index on a tie), its value is that class's vote count,
\* and it is all zero for a cell with no assigned box.
C23_MajorityClass ==
    FreshlyParsed =>
        LET group_mask == CurrentGroupMask
        IN  \A c \in Cells :
                LET labels == in_[1].group_class_labels[c[1]][c[2]]
                    winner == Winner(group_mask, c)
                IN  /\ \A k \in ClassIndices :
                          labels[k] = IF k = winner THEN Votes(group_mask, c, k) ELSE 0
                    /\ Cardinality({k \in ClassIndices : labels[k] # 0}) <= 1
                    /\ AssignedBoxes(group_mask, c) = {} =>
                          \A k \in ClassIndices : labels[k] = 0

\* A cell whose two boxes vote for different classes: the lower class
\* index has the entry.
C23_Witness ==
    /\ FreshlyParsed
    /\ \E c \in Cells :
          /\ Votes(CurrentGroupMask, c, 1) = 1 /\ Votes(CurrentGroupMask, c, 2) = 1
          /\ in_[1].group_class_labels[c[1]][c[2]][1] = 1
          /\ in_[1].group_class_labels[c[1]][c[2]][2] = 0

(***************************************************************************)
(* rescale_with_offsets on one predicted box, and the specification        *)
(* SpecRescale.                                                            *)
(***************************************************************************)
\* Coordinates in steps of 0.2.
RescaleCoords == {0, 24, 48, 72, 96, 120}

\* Predicted boxes of positive width and height.
RescaleBoxes ==
    {box \in RescaleCoords \X RescaleCoords \X RescaleCoords \X RescaleCoords :
        box[1] < box[3] /\ box[2] < box[4]}

\* Positive offsets: 2, 1, 1/2 and 1/3.
PositiveOffsets == {<<2, 1>>, <<1, 1>>, <<1, 2>>, <<1, 3>>}

InitRescale ==
    /\ pc = "rescale_with_offsets"
    /\ \E box \in RescaleBoxes, offset_w \in PositiveOffsets, offset_h \in PositiveOffsets :
          geo = [predicted_box |-> box,
                 predicted_offsets |-> <<offset_w, offset_h>>,
                 rescaled |-> <<>>]
    /\ OnlyGeometry

Rescale ==
    /\ pc = "rescale_with_offsets"
    /\ geo' = [geo EXCEPT !.rescaled = RescaleBox(geo.predicted_box, geo.predicted_offsets)]
    /\ pc' = "rescaled"
    /\ UNCHANGED NotGeometry

NextRescale == Rescale

SpecRescale == InitRescale /\ [][NextRescale]_vars

(***************************************************************************)
(* Properties of rescale_with_offsets (SpecRescale).                       *)
(***************************************************************************)
\* target_scale = min(1, max(w / offset_w, h / offset_h)), in units.
TargetScale ==
    LET w == geo.predicted_box[3] - geo.predicted_box[1]
        h == geo.predicted_box[4] - geo.predicted_box[2]
        offset_w == geo.predicted_offsets[1]
        offset_h == geo.predicted_offsets[2]
    IN  Min2(Den, Max2((w * offset_w[2]) \div offset_w[1],
                       (h * offset_h[2]) \div offset_h[1]))

\* The result is the square of side target_scale about the centre of the
\* predicted box (sums of coordinates are twice the centre).
SquareAboutCentre ==
    /\ geo.rescaled[3] - geo.rescaled[1] = geo.rescaled[4] - geo.rescaled[2]
    /\ geo.rescaled[3] - geo.rescaled[1] = TargetScale
    /\ geo.rescaled[1] + geo.rescaled[3] = geo.predicted_box[1] + geo.predicted_box[3]
    /\ geo.rescaled[2] + geo.rescaled[4] = geo.predicted_box[2] + geo.predicted_box[4]

InUnitSquare == \A k \in 1..4 : 0 <= geo.rescaled[k] /\ geo.rescaled[k] <= Den

\* The square of side target_scale about the centre lies within the image.
SquareFits ==
    /\ geo.predicted_box[1] + geo.predicted_box[3] - TargetScale >= 0
    /\ geo.predicted_box[2] + geo.predicted_box[4] - TargetScale >= 0
    /\ geo.predicted_box[1] + geo.predicted_box[3] + TargetScale <= 2 * Den
    /\ geo.predicted_box[2] + geo.predicted_box[4] + TargetScale <= 2 * Den

\* C24: for every predicted box and every positive offset pair,
\* rescale_with_offsets returns a square box of side
\* target_scale = min(1, max(w / offset_w, h / offset_h)) centred on the
\* centre of the input box, with all coordinates in [0, 1].
C24_SquareOfTargetScale ==
    pc = "rescaled" => (SquareAboutCentre /\ InUnitSquare)

\* The coordinates are in [0, 1], and the box is that square whenever the
\* square fits in the image.
C24_SquareWhenItFits ==
    pc = "rescaled" => (InUnitSquare /\ (SquareFits => SquareAboutCentre))

\* Clipped on one side only, the result is not a square.
C24_ClippedNotSquare ==
    (/\ pc = "rescaled"
     /\ geo.predicted_box = <<0, 24, 48, 96>>
     /\ geo.predicted_offsets = <<<<1, 1>>, <<1, 1>>>>)
        => geo.rescaled = <<0, 24, 60, 96>>

(***************************************************************************)
(* Number of crops extract_groups returns (SpecFilter).                    *)
(***************************************************************************)
Images == DOMAIN eg_args.predicted_scores

KeptBoxes(n) ==
    {m \in 1..MaxGt :
        FracGt(get_intersection_ratio(SourceBox(n, m), PatchCrop(n)),
               ns_args.intersection_ratio_threshold)}

\* The valid boxes of patch n's source image.
SourceValid(n) == {m \in 1..MaxGt : NonDegenerate(SourceBox(n, m))}

ValidRemapped(out) == FracGt(out[3], out[1]) /\ FracGt(out[4], out[2])

\* C26: in every next-stage record num_boxes is the number of boxes of the
\* source image whose intersection ratio with the record's crop exceeds
\* intersection_ratio_threshold: every kept box is valid after remap and
\* clip and every dropped box is invalid; num_boxes never exceeds the
\* source image's num_boxes and is 0 for a degenerate crop.
C26_NumBoxesCountsKept ==
    pc = "patches" =>
        \A n \in Patches :
            /\ ns_result.num_boxes[n] = Cardinality(KeptBoxes(n))
            /\ \A m \in 1..MaxGt :
                  ValidRemapped(ns_result.bounding_boxes[n][m]) <=> m \in KeptBoxes(n)
            /\ ns_result.num_boxes[n] <= Cardinality(SourceValid(n))
            /\ ~NonDegenerate(PatchCrop(n)) => ns_result.num_boxes[n] = 0

\* One record keeps one of its image's two boxes, and a record of the
\* zero crop keeps none of them.
C26_Witness ==
    /\ pc = "patches"
    /\ \E n \in Patches :
          /\ Cardinality(SourceValid(n)) = 2
          /\ Cardinality(KeptBoxes(n)) = 1
          /\ ns_result.num_boxes[n] = 1
    /\ \E n \in Patches :
          /\ Cardinality(SourceValid(n)) = 2
          /\ PatchCrop(n) = ZeroBox
          /\ ns_result.num_boxes[n] = 0

\* Source image and crop of record n (records, images and crops counted
\* from 1): image (n - 1) div K + 1 and crop (n - 1) mod K + 1.
SourceImage(n) == ((n - 1) \div NumCrops) + 1

SourceCrop(n) == ((n - 1) % NumCrops) + 1

\* C27: without the queue, for B images and K crops each, every field of
\* record n comes from source image n div K and crop n mod K: image patch,
\* im_id, class_labels, remapped bounding_boxes, num_boxes and occupancy
\* mask.
C27_RecordFromImageAndCrop ==
    pc = "patches" =>
        /\ Patches = 1..(Len(ns_args.crop_boxes) * NumCrops)
        /\ \A n \in Patches :
            LET b == SourceImage(n)
                crop == ns_args.crop_boxes[b][SourceCrop(n)]
                boxes == [m \in 1..MaxGt |->
                            RemapBox(ns_args.inputs.bounding_boxes[b][m], crop,
                                     ns_args.intersection_ratio_threshold)]
            IN  /\ ns_result.im_id[n] = ns_args.inputs.im_id[b]
                /\ ns_result.class_labels[n] = ns_args.inputs.class_labels[b]
                /\ ns_result.image[n].of = ns_args.inputs.image[b]
                /\ ns_result.image[n].window = <<crop[2], crop[1], crop[4], crop[3]>>
                /\ ns_result.bounding_boxes[n] = boxes
                /\ ns_result.num_boxes[n] =
                      Cardinality({m \in 1..MaxGt : ValidRemapped(boxes[m])})
                /\ \A i \in 1..ns_args.num_cells[1], j \in 1..ns_args.num_cells[2] :
                      \A m \in 1..MaxGt :
                          ns_result.obj_i_mask_bbs[n][i][j][m] =
                              IF PatchInters(boxes[m], ns_args.num_cells, i, j)
                              THEN 1 ELSE 0

\* Two images of different boxes and labels under two different crops
\* each: four records.
C27_Witness ==
    /\ pc = "patches"
    /\ Len(ns_args.crop_boxes) = 2 /\ NumCrops = 2
    /\ ns_args.inputs.bounding_boxes[1] # ns_args.inputs.bounding_boxes[2]
    /\ ns_args.inputs.class_labels[1] # ns_args.inputs.class_labels[2]
    /\ ns_args.crop_boxes[1][1] # ns_args.crop_boxes[1][2]
    /\ NonDegenerate(ns_args.crop_boxes[1][1]) /\ NonDegenerate(ns_args.crop_boxes[1][2])
    /\ ns_result.im_id = <<1, 1, 2, 2>>
    /\ ns_result.num_boxes[2] # ns_result.num_boxes[3]

(***************************************************************************)
(* Capacity, blocking and cancellation of the batching queue               *)
(* (SpecQueueCancel).                                                      *)
(***************************************************************************)
\* Every patch of every run, whole.
AllPatches == UNION {SeqToSet(RunPatches(queue.runs, r)) : r \in DOMAIN queue.runs}

\* The records delivered so far, in order.
RECURSIVE Concat(_)
Concat(batches) ==
    IF batches = <<>> THEN <<>> ELSE Head(batches) \o Concat(Tail(batches))

NoDuplicates(s) == \A i \in DOMAIN s, j \in DOMAIN s : s[i] = s[j] => i = j

\* While the consumer is served the queue is within its capacity (a failed
\* dequeue hands its elements back to the closed queue), and every
\* delivered batch is full and made of whole, distinct records of the input.
WithinCapacityWholeBatches ==
    /\ pc = "batching" => Len(queue.elements) <= queue.capacity
    /\ \A k \in DOMAIN queue.delivered :
          /\ Len(queue.delivered[k]) = queue.batch_size
          /\ SeqToSet(queue.delivered[k]) \subseteq AllPatches
    /\ NoDuplicates(Concat(queue.delivered) \o queue.taken \o queue.elements)

\* A step on a full queue is not an enqueue, and a step that delivers a
\* batch completes it to batch_size records taken from the queue.
BlockingStep ==
    /\ (Len(queue.elements) = queue.capacity /\ ~queue'.closed) =>
          \A t \in Threads : Len(queue'.pending[t]) >= Len(queue.pending[t])
    /\ queue'.delivered # queue.delivered =>
          /\ Len(queue.taken) + 1 = queue.batch_size
          /\ Len(queue.elements) >= 1
          /\ Len(queue'.delivered) = Len(queue.delivered) + 1
          /\ \A i \in DOMAIN queue.taken :
                queue'.delivered[Len(queue'.delivered)][i] = queue.taken[i]

MaxDevices == 3

MaxDeviceBatch == 3

\* im_id of the first record of the batch.
FirstIds == {0, 5, 7}

\* A slice size without the lower clamp.
slice_dim_unclamped(batch_size, unpadded_batch) == Min2(batch_size, unpadded_batch)

\* The size of one device's slice, from what is left of the batch.
slice_dim(batch_size, unpadded_batch) == Max2(0, Min2(batch_size, unpadded_batch))

RECURSIVE SumSizes(_)
SumSizes(sizes) == IF sizes = <<>> THEN 0 ELSE Head(sizes) + SumSizes(Tail(sizes))

\* tf.split(value, size_splits, axis=0): consecutive pieces of the given sizes.
RECURSIVE tf_split(_, _)
tf_split(value, size_splits) ==
    IF size_splits = <<>> THEN <<>>
    ELSE <<SubSeq(value, 1, Head(size_splits))>>
         \o tf_split(SubSeq(value, Head(size_splits) + 1, Len(value)), Tail(size_splits))

\* tf.split accepts sizes that are non-negative and add up to the dimension.
SplittableBy(value, size_splits) ==
    /\ \A i \in DOMAIN size_splits : size_splits[i] >= 0
    /\ SumSizes(size_splits) = Len(value)

\* The keys of the batch dictionary followed here.
BatchKeys == {"im_id", "num_boxes"}

\* A batch of the iterator: at least one record and at most
\* batch_size * num_devices, with consecutive im_ids.
InitSplit ==
    /\ pc = "slice_dims"
    /\ \E batch_size \in 1..MaxDeviceBatch, num_devices \in 1..MaxDevices, first \in FirstIds :
          \E L \in 1..(batch_size * num_devices) :
              split = [batch_size |-> batch_size,
                       num_devices |-> num_devices,
                       batch |-> [im_id |-> [n \in 1..L |-> first + n - 1],
                                  num_boxes |-> [n \in 1..L |-> (first + n) % 3]],
                       unpadded_batch |-> L,
                       slice_dims |-> <<>>,
                       inputs |-> <<>>,
                       status |-> "ok"]
    /\ OnlySplit

\* One turn of the loop over the devices.
SliceDims ==
    /\ pc = "slice_dims"
    /\ Len(split.slice_dims) < split.num_devices
    /\ split' = [split EXCEPT
          !.slice_dims = Append(@, slice_dim(split.batch_size, split.unpadded_batch)),
          !.unpadded_batch = @ - split.batch_size]
    /\ UNCHANGED <<pc, NotSplit>>

\* Every value of the batch is split by slice_dims, piece i to device i.
SplitBatch ==
    /\ pc = "slice_dims"
    /\ Len(split.slice_dims) = split.num_devices
    /\ IF \A key \in BatchKeys : SplittableBy(split.batch[key], split.slice_dims)
       THEN split' = [split EXCEPT
                !.inputs = [i \in 1..split.num_devices |->
                               [key \in BatchKeys |->
                                   tf_split(split.batch[key], split.slice_dims)[i]]]]
       ELSE split' = [split EXCEPT !.status = "InvalidArgumentError"]
    /\ pc' = "inputs"
    /\ UNCHANGED NotSplit

NextSplit == SliceDims \/ SplitBatch

SpecSplit == InitSplit /\ [][NextSplit]_vars

(***************************************************************************)
(* The device split is an ordered partition (SpecSplit).                   *)
(***************************************************************************)
\* The records of the batch from position lo + 1 up to position hi.
Records(value, lo, hi) == [n \in 1..Max2(hi - lo, 0) |-> value[lo + n]]

\* The pieces of one key, device after device, put end to end.
Rejoined(key) == Concat([i \in 1..split.num_devices |-> split.inputs[i][key]])

\* C29: device i (counted from 0) receives the records
\* [i*batch_size, min((i+1)*batch_size, L)) of every field, so that every
\* slice has between 0 and batch_size records, the sizes add up to L,
\* earlier devices are filled first and the pieces put end to end are the
\* batch, also when the batch is short.
C29_OrderedPartition ==
    pc = "inputs" =>
        LET L == Len(split.batch.im_id)
            size(i) == Len(split.inputs[i].im_id)
        IN  /\ split.status = "ok"
            /\ \A i \in 1..split.num_devices, key \in BatchKeys :
                  /\ split.inputs[i][key] =
                        Records(split.batch[key], (i - 1) * split.batch_size,
                                Min2(i * split.batch_size, L))
                  /\ Len(split.inputs[i][key]) = size(i)
            /\ \A i \in 1..split.num_devices : size(i) \in 0..split.batch_size
            /\ SumSizes([i \in 1..split.num_devices |-> size(i)]) = L
            /\ \A i \in 1..(split.num_devices - 1) :
                  size(i) < split.batch_size => size(i + 1) = 0
            /\ \A key \in BatchKeys : Rejoined(key) = split.batch[key]

\* A short batch: one device with a partial slice and a later one with none.
C29_Witness ==
    /\ pc = "inputs"
    /\ split.status = "ok"
    /\ \E i \in 1..split.num_devices, j \in 1..split.num_devices :
          /\ i < j
          /\ Len(split.inputs[i].im_id) \in 1..(split.batch_size - 1)
          /\ split.inputs[j].im_id = <<>>

(***************************************************************************)
(* Group boxes of occupied and of empty cells (SpecData).                  *)
(***************************************************************************)
\* The box (1, 1, 0, 0) of a cell without a group.
InvalidGroupBox == <<Den, Den, 0, 0>>

IsValidGroupBox(box) == box[3] > box[1] /\ box[4] > box[2]

\* C30: with boxes in [0, 1] and any grouping method, the group box of a
\* cell is valid (xmax > xmin and ymax > ymin) exactly when some box is
\* assigned to the cell, and a cell with no assigned box gets (1, 1, 0, 0).
C30_ValidIffAssigned ==
    FreshlyParsed =>
        LET group_mask == CurrentGroupMask
            group_boxes == in_[1].group_bounding_boxes_per_cell
        IN  \A c \in Cells :
                LET assigned == AssignedBoxes(group_mask, c)
                    group_box == group_boxes[c[1]][c[2]]
                IN  /\ IsValidGroupBox(group_box) <=> assigned # {}
                    /\ assigned = {} => group_box = InvalidGroupBox

\* An empty cell next to a cell whose group leaves out one of the boxes of
\* the image.
C30_Witness ==
    /\ FreshlyParsed
    /\ example.num_boxes >= 2
    /\ LET group_mask == CurrentGroupMask
       IN  /\ \E c \in Cells : AssignedBoxes(group_mask, c) = {}
           /\ \E c \in Cells :
                 /\ AssignedBoxes(group_mask, c) # {}
                 /\ \E n \in 1..example.num_boxes : ~Assigned(group_mask, n, c)

====
